---- MODULE Spec2Model ----
(***************************************************************************)
(* A model of the truster ray tracer (KilianVounckx/truster).              *)
(*                                                                         *)
(* Numbers.  The program computes in f64.  The model computes in exact     *)
(* rational arithmetic: a number is a pair <<n, d>> in lowest terms with   *)
(* d >= 0; d = 0 gives the IEEE specials, <<1,0>> = +inf, <<-1,0>> = -inf  *)
(* and <<0,0>> = NaN (unordered, as in f64).  sqrt is taken exactly, so    *)
(* the scenes the model draws are those in which every square root the     *)
(* code takes is rational.  Signed zeros and rounding are not modelled.    *)
(* A whole number beyond the integers of the checker is written            *)
(* <<k, -1>> = k * 65536 (Huge); it is a value a caller passes in, and the *)
(* only operation that reads it is the cast to i32 in Stripe::color_at.    *)
(*                                                                         *)
(* Lets.  A `let x = e;` of the source followed by the code B is           *)
(* Only({B : x \in {e}}): e is written and evaluated once, before B, as in *)
(* Rust.  A block of lets therefore reads from its last line upwards.      *)
(*                                                                         *)
(* Records.  A struct is a record with the fields of the struct.  The      *)
(* fields of a record are written in the order TLC keeps them in (that of  *)
(* the first occurrence of each name in this module), not in the order of  *)
(* the struct: TLC's workers share the operands of an action, and a record *)
(* already in that order is never rearranged while another worker reads    *)
(* it.                                                                     *)
(***************************************************************************)
EXTENDS Integers, Sequences, FiniteSets, TLC

VARIABLES
    ID,       \* static ID: AtomicUsize             (intersection.rs:13)
    xs,       \* a caller-held Vec<Intersection>
    shapes,   \* World.shapes                        (world.rs:15)
    lights,   \* World.lights                        (world.rs:16)
    cam,      \* the Camera in use, or NoCamera      (camera.rs:42)
    canvas,   \* the Canvas render is filling        (canvas.rs:76)
    pc,       \* "idle", "render" (inside Camera::render) or "panicked"
    py,       \* render's row loop variable          (camera.rs:117)
    px,       \* render's column loop variable       (camera.rs:118)
    ret,      \* arguments and result of the last direct call
    obj,      \* a shape or texture a caller is configuring, or NoObject
    sink,     \* the `dyn Write` handed to Canvas::to_ppm (canvas.rs:103)
    calls     \* per caller, the Intersection::new it is inside (intersection.rs:28)

vars == <<ID, xs, shapes, lights, cam, canvas, pc, py, px, ret, obj, sink, calls>>

----------------------------------------------------------------------------
(* Bounds of the model *)

MaxLen == 3      \* longest caller-held intersection list
MaxID == 6       \* Intersection::new is not called by a caller beyond this id
MaxStartID == 1  \* the counter starts at 0..MaxStartID
MaxShapes == 2   \* most shapes added to the world
MaxLights == 2   \* most lights added to the world

MaxPasses == 2   \* renders and single-pixel passes over one scene

MaxCalls == 2    \* set_transform calls on one object

MaxSide == 2     \* widest and highest canvas a caller makes

MaxIndex == 4    \* largest index handed to an Index implementation

MaxFailAt == 5   \* a failing sink fails at its first..MaxFailAt-th write

MaxCallers == 2  \* callers that may be inside Intersection::new at once

----------------------------------------------------------------------------
(* let bindings *)

\* the element of a set of one element
Only(S) == CHOOSE v \in S : TRUE

----------------------------------------------------------------------------
(* f64 as exact rationals *)

Abs(n) == IF n < 0 THEN -n ELSE n

Sign(n) == IF n < 0 THEN -1 ELSE IF n > 0 THEN 1 ELSE 0

RECURSIVE GCD(_, _)
GCD(a, b) == IF b = 0 THEN a ELSE GCD(b, a % b)

Norm(n, d) ==
    IF d = 0 THEN <<Sign(n), 0>>
    ELSE LET g == GCD(Abs(n), Abs(d))
             s == IF d < 0 THEN -1 ELSE 1
         IN  <<(s * n) \div g, Abs(d) \div g>>

I(n) == <<n, 1>>

NaN == <<0, 0>>

\* the f64 k * 65536, for whole numbers beyond the checker's integers
Huge(k) == <<k, -1>>

IsNaN(a) == a[1] = 0 /\ a[2] = 0

RNeg(a) == <<-a[1], a[2]>>

RAdd(a, b) ==
    IF IsNaN(a) \/ IsNaN(b) THEN NaN
    ELSE IF a[2] = 0 /\ b[2] = 0 THEN (IF a[1] = b[1] THEN a ELSE NaN)
    ELSE IF a[2] = 0 THEN a
    ELSE IF b[2] = 0 THEN b
    ELSE LET g == GCD(a[2], b[2])
         IN  Norm(a[1] * (b[2] \div g) + b[1] * (a[2] \div g),
                  (a[2] \div g) * b[2])

RSub(a, b) == RAdd(a, RNeg(b))

RMul(a, b) ==
    IF IsNaN(a) \/ IsNaN(b) THEN NaN
    ELSE IF a[2] = 0 \/ b[2] = 0
         THEN (IF a[1] = 0 \/ b[1] = 0 THEN NaN
               ELSE <<Sign(a[1]) * Sign(b[1]), 0>>)
    ELSE LET g1 == GCD(Abs(a[1]), b[2])
             g2 == GCD(Abs(b[1]), a[2])
         IN  <<(a[1] \div g1) * (b[1] \div g2), (a[2] \div g2) * (b[2] \div g1)>>

RDiv(a, b) ==
    RMul(a, IF IsNaN(b) THEN NaN
            ELSE IF b[2] = 0 THEN <<0, 1>>
            ELSE IF b[1] = 0 THEN <<1, 0>>
            ELSE <<Sign(b[1]) * b[2], Abs(b[1])>>)

\* a < b of f64: false when either side is NaN
RLt(a, b) ==
    /\ ~IsNaN(a)
    /\ ~IsNaN(b)
    /\ IF a[2] = 0 \/ b[2] = 0
       THEN (IF a[2] = 0 THEN a[1] ELSE 0) < (IF b[2] = 0 THEN b[1] ELSE 0)
       ELSE LET g == GCD(a[2], b[2])
            IN  a[1] * (b[2] \div g) < b[1] * (a[2] \div g)

RGt(a, b) == RLt(b, a)

RLe(a, b) == RLt(a, b) \/ (~IsNaN(a) /\ ~IsNaN(b) /\ a = b)

RGe(a, b) == RLe(b, a)

\* floor of the integer square root, by bisection on lo..hi
RECURSIVE ISqrtIn(_, _, _)
ISqrtIn(n, lo, hi) ==
    IF lo >= hi THEN lo
    ELSE LET mid == (lo + hi + 1) \div 2
         IN  IF mid * mid <= n THEN ISqrtIn(n, mid, hi) ELSE ISqrtIn(n, lo, mid - 1)

\* the exact integer square root; n is a perfect square in every scene drawn
ISqrt(n) ==
    LET r == ISqrtIn(n, 0, IF n < 46340 THEN n ELSE 46340)
    IN  CHOOSE k \in {r} : k * k = n

\* f64::sqrt
RSqrt(a) ==
    IF IsNaN(a) \/ a[1] < 0 THEN NaN
    ELSE IF a[2] = 0 THEN a
    ELSE <<ISqrt(a[1]), ISqrt(a[2])>>

\* f64::powf for the whole-number exponents the model draws
RECURSIVE RPow(_, _)
RPow(a, k) ==
    IF k = 0 THEN I(1)
    ELSE IF k % 2 = 0 THEN LET h == RPow(a, k \div 2) IN RMul(h, h)
    ELSE RMul(a, RPow(a, k - 1))

----------------------------------------------------------------------------
(* Tuple (tuple.rs) *)

TupleNew(x, y, z, w) == [x |-> x, y |-> y, z |-> z, w |-> w]

Point(x, y, z) == TupleNew(x, y, z, I(1))

Vector(x, y, z) == TupleNew(x, y, z, I(0))

\* points and vectors with whole-number coordinates
P(x, y, z) == Point(I(x), I(y), I(z))

V(x, y, z) == Vector(I(x), I(y), I(z))

Dot(a, b) ==
    RAdd(RAdd(RAdd(RMul(a.x, b.x), RMul(a.y, b.y)), RMul(a.z, b.z)), RMul(a.w, b.w))

Cross(a, b) ==
    Vector(RSub(RMul(a.y, b.z), RMul(a.z, b.y)),
           RSub(RMul(a.z, b.x), RMul(a.x, b.z)),
           RSub(RMul(a.x, b.y), RMul(a.y, b.x)))

NormSquared(a) ==
    RAdd(RAdd(RAdd(RMul(a.x, a.x), RMul(a.y, a.y)), RMul(a.z, a.z)), RMul(a.w, a.w))

TNorm(a) == RSqrt(NormSquared(a))

TAdd(a, b) == TupleNew(RAdd(a.x, b.x), RAdd(a.y, b.y), RAdd(a.z, b.z), RAdd(a.w, b.w))

TSub(a, b) == TupleNew(RSub(a.x, b.x), RSub(a.y, b.y), RSub(a.z, b.z), RSub(a.w, b.w))

TNeg(a) == TupleNew(RNeg(a.x), RNeg(a.y), RNeg(a.z), RNeg(a.w))

TMul(a, k) == TupleNew(RMul(a.x, k), RMul(a.y, k), RMul(a.z, k), RMul(a.w, k))

TDiv(a, k) == TupleNew(RDiv(a.x, k), RDiv(a.y, k), RDiv(a.z, k), RDiv(a.w, k))

Normalized(a) == TDiv(a, TNorm(a))

Reflect(a, normal) == TSub(a, TMul(TMul(normal, I(2)), Dot(a, normal)))

\* impl Index<usize> for Tuple: tuple[index]; ok is FALSE where it panics
TupleIndex(tuple, index) ==
    CASE index = 0 -> [ok |-> TRUE, value |-> tuple.x]
      [] index = 1 -> [ok |-> TRUE, value |-> tuple.y]
      [] index = 2 -> [ok |-> TRUE, value |-> tuple.z]
      [] OTHER -> [ok |-> FALSE, value |-> NaN]

\* impl IndexMut<usize> for Tuple: tuple[index] = v
TupleIndexMut(tuple, index, v) ==
    CASE index = 0 -> [ok |-> TRUE, after |-> [tuple EXCEPT !.x = v]]
      [] index = 1 -> [ok |-> TRUE, after |-> [tuple EXCEPT !.y = v]]
      [] index = 2 -> [ok |-> TRUE, after |-> [tuple EXCEPT !.z = v]]
      [] OTHER -> [ok |-> FALSE, after |-> tuple]

----------------------------------------------------------------------------
(* Matrix (matrix.rs): data is the row-major Vec<f64> of 16 entries;       *)
(* data[i] of the source is m[i + 1] here.                                 *)

MatrixNew(data) == data

Eye ==
    MatrixNew(<<I(1), I(0), I(0), I(0),
                I(0), I(1), I(0), I(0),
                I(0), I(0), I(1), I(0),
                I(0), I(0), I(0), I(1)>>)

Translation(x, y, z) ==
    MatrixNew(<<I(1), I(0), I(0), x,
                I(0), I(1), I(0), y,
                I(0), I(0), I(1), z,
                I(0), I(0), I(0), I(1)>>)

Scaling(x, y, z) ==
    MatrixNew(<<x, I(0), I(0), I(0),
                I(0), y, I(0), I(0),
                I(0), I(0), z, I(0),
                I(0), I(0), I(0), I(1)>>)

\* Matrix::rotation_x, rotation_y, rotation_z.  An angle is written by the
\* point it marks on the unit circle, [cos |-> c, sin |-> s] with rational c
\* and s; theta.cos() and theta.sin() read the two.
RotationX(theta) ==
    MatrixNew(<<I(1), I(0), I(0), I(0),
                I(0), theta.cos, RNeg(theta.sin), I(0),
                I(0), theta.sin, theta.cos, I(0),
                I(0), I(0), I(0), I(1)>>)

Shearing(xy, xz, yx, yz, zx, zy) ==
    MatrixNew(<<I(1), xy, xz, I(0),
                yx, I(1), yz, I(0),
                zx, zy, I(1), I(0),
                I(0), I(0), I(0), I(1)>>)

\* self[[row, col]], rows and columns 0..3
At(m, row, col) == m[row * 4 + col + 1]

\* mutant of MatrixIndex: the column is not checked, so a column past 3 reads
\* on into the next row
MatrixIndex_NoColumnCheck(m, row, col) ==
    IF row > 3 \/ row * 4 + col + 1 > 16 THEN [ok |-> FALSE, value |-> NaN]
    ELSE [ok |-> TRUE, value |-> m[row * 4 + col + 1]]

\* impl Index<[usize; 2]> for Matrix: m[[row, col]] with its two checks; ok is
\* FALSE where it panics
MatrixIndex(m, row, col) ==
    IF row > 3 THEN [ok |-> FALSE, value |-> NaN]
    ELSE IF col > 3 THEN [ok |-> FALSE, value |-> NaN]
    ELSE [ok |-> TRUE, value |-> m[row * 4 + col + 1]]

\* impl IndexMut<[usize; 2]> for Matrix: m[[row, col]] = v
MatrixIndexMut(m, row, col, v) ==
    IF row > 3 THEN [ok |-> FALSE, after |-> m]
    ELSE IF col > 3 THEN [ok |-> FALSE, after |-> m]
    ELSE [ok |-> TRUE, after |-> [m EXCEPT ![row * 4 + col + 1] = v]]

MatMul(a, b) ==
    [i \in 1..16 |->
        LET row == (i - 1) \div 4
            col == (i - 1) % 4
        IN  RAdd(RAdd(RAdd(RMul(At(a, row, 0), At(b, 0, col)),
                           RMul(At(a, row, 1), At(b, 1, col))),
                      RMul(At(a, row, 2), At(b, 2, col))),
                 RMul(At(a, row, 3), At(b, 3, col)))]

MatVec(m, t) ==
    LET Row(r) == RAdd(RAdd(RAdd(RMul(At(m, r, 0), t.x), RMul(At(m, r, 1), t.y)),
                            RMul(At(m, r, 2), t.z)),
                       RMul(At(m, r, 3), t.w))
    IN  TupleNew(Row(0), Row(1), Row(2), Row(3))

ViewTransform(from, at, up) ==
    Only({
      Only({
        Only({
          MatMul(MatrixNew(<<left.x, left.y, left.z, I(0),
                             trueUp.x, trueUp.y, trueUp.z, I(0),
                             RNeg(forward.x), RNeg(forward.y), RNeg(forward.z), I(0),
                             I(0), I(0), I(0), I(1)>>),
                 Translation(RNeg(from.x), RNeg(from.y), RNeg(from.z)))
        : trueUp \in {Cross(left, forward)}})
      : left \in {Cross(forward, upn)}})
    : forward \in {Normalized(TSub(at, from))}, upn \in {Normalized(up)}})

\* mutant of Inverse: the determinant is taken from its first term alone
Inverse_FirstTermOnly(m) ==
    Only({
      Only({
        <<RMul(result[1], det), RMul(result[2], det), RMul(result[3], det),
          RMul(result[4], det), RMul(result[5], det), RMul(result[6], det),
          RMul(result[7], det), RMul(result[8], det), RMul(result[9], det),
          RMul(result[10], det), RMul(result[11], det), RMul(result[12], det),
          RMul(result[13], det), RMul(result[14], det), RMul(result[15], det),
          RMul(result[16], det)>>
      : det \in {RDiv(I(1), RMul(m[1], result[1]))}})
    : result \in {<<
                \* result.data[0]
                RSub(RAdd(RAdd(RSub(RSub(RMul(RMul(m[6], m[11]), m[16]),
                     RMul(RMul(m[6], m[12]), m[15])),
                     RMul(RMul(m[10], m[7]), m[16])),
                     RMul(RMul(m[10], m[8]), m[15])),
                     RMul(RMul(m[14], m[7]), m[12])),
                     RMul(RMul(m[14], m[8]), m[11])),
                \* result.data[1]
                RAdd(RSub(RSub(RAdd(RAdd(RMul(RMul(RNeg(m[2]), m[11]), m[16]),
                     RMul(RMul(m[2], m[12]), m[15])),
                     RMul(RMul(m[10], m[3]), m[16])),
                     RMul(RMul(m[10], m[4]), m[15])),
                     RMul(RMul(m[14], m[3]), m[12])),
                     RMul(RMul(m[14], m[4]), m[11])),
                \* result.data[2]
                RSub(RAdd(RAdd(RSub(RSub(RMul(RMul(m[2], m[7]), m[16]),
                     RMul(RMul(m[2], m[8]), m[15])),
                     RMul(RMul(m[6], m[3]), m[16])),
                     RMul(RMul(m[6], m[4]), m[15])),
                     RMul(RMul(m[14], m[3]), m[8])),
                     RMul(RMul(m[14], m[4]), m[7])),
                \* result.data[3]
                RAdd(RSub(RSub(RAdd(RAdd(RMul(RMul(RNeg(m[2]), m[7]), m[12]),
                     RMul(RMul(m[2], m[8]), m[11])),
                     RMul(RMul(m[6], m[3]), m[12])),
                     RMul(RMul(m[6], m[4]), m[11])),
                     RMul(RMul(m[10], m[3]), m[8])),
                     RMul(RMul(m[10], m[4]), m[7])),
                \* result.data[4]
                RAdd(RSub(RSub(RAdd(RAdd(RMul(RMul(RNeg(m[5]), m[11]), m[16]),
                     RMul(RMul(m[5], m[12]), m[15])),
                     RMul(RMul(m[9], m[7]), m[16])),
                     RMul(RMul(m[9], m[8]), m[15])),
                     RMul(RMul(m[13], m[7]), m[12])),
                     RMul(RMul(m[13], m[8]), m[11])),
                \* result.data[5]
                RSub(RAdd(RAdd(RSub(RSub(RMul(RMul(m[1], m[11]), m[16]),
                     RMul(RMul(m[1], m[12]), m[15])),
                     RMul(RMul(m[9], m[3]), m[16])),
                     RMul(RMul(m[9], m[4]), m[15])),
                     RMul(RMul(m[13], m[3]), m[12])),
                     RMul(RMul(m[13], m[4]), m[11])),
                \* result.data[6]
                RAdd(RSub(RSub(RAdd(RAdd(RMul(RMul(RNeg(m[1]), m[7]), m[16]),
                     RMul(RMul(m[1], m[8]), m[15])),
                     RMul(RMul(m[5], m[3]), m[16])),
                     RMul(RMul(m[5], m[4]), m[15])),
                     RMul(RMul(m[13], m[3]), m[8])),
                     RMul(RMul(m[13], m[4]), m[7])),
                \* result.data[7]
                RSub(RAdd(RAdd(RSub(RSub(RMul(RMul(m[1], m[7]), m[12]),
                     RMul(RMul(m[1], m[8]), m[11])),
                     RMul(RMul(m[5], m[3]), m[12])),
                     RMul(RMul(m[5], m[4]), m[11])),
                     RMul(RMul(m[9], m[3]), m[8])),
                     RMul(RMul(m[9], m[4]), m[7])),
                \* result.data[8]
                RSub(RAdd(RAdd(RSub(RSub(RMul(RMul(m[5], m[10]), m[16]),
                     RMul(RMul(m[5], m[12]), m[14])),
                     RMul(RMul(m[9], m[6]), m[16])),
                     RMul(RMul(m[9], m[8]), m[14])),
                     RMul(RMul(m[13], m[6]), m[12])),
                     RMul(RMul(m[13], m[8]), m[10])),
                \* result.data[9]
                RAdd(RSub(RSub(RAdd(RAdd(RMul(RMul(RNeg(m[1]), m[10]), m[16]),
                     RMul(RMul(m[1], m[12]), m[14])),
                     RMul(RMul(m[9], m[2]), m[16])),
                     RMul(RMul(m[9], m[4]), m[14])),
                     RMul(RMul(m[13], m[2]), m[12])),
                     RMul(RMul(m[13], m[4]), m[10])),
                \* result.data[10]
                RSub(RAdd(RAdd(RSub(RSub(RMul(RMul(m[1], m[6]), m[16]),
                     RMul(RMul(m[1], m[8]), m[14])),
                     RMul(RMul(m[5], m[2]), m[16])),
                     RMul(RMul(m[5], m[4]), m[14])),
                     RMul(RMul(m[13], m[2]), m[8])),
                     RMul(RMul(m[13], m[4]), m[6])),
                \* result.data[11]
                RAdd(RSub(RSub(RAdd(RAdd(RMul(RMul(RNeg(m[1]), m[6]), m[12]),
                     RMul(RMul(m[1], m[8]), m[10])),
                     RMul(RMul(m[5], m[2]), m[12])),
                     RMul(RMul(m[5], m[4]), m[10])),
                     RMul(RMul(m[9], m[2]), m[8])),
                     RMul(RMul(m[9], m[4]), m[6])),
                \* result.data[12]
                RAdd(RSub(RSub(RAdd(RAdd(RMul(RMul(RNeg(m[5]), m[10]), m[15]),
                     RMul(RMul(m[5], m[11]), m[14])),
                     RMul(RMul(m[9], m[6]), m[15])),
                     RMul(RMul(m[9], m[7]), m[14])),
                     RMul(RMul(m[13], m[6]), m[11])),
                     RMul(RMul(m[13], m[7]), m[10])),
                \* result.data[13]
                RSub(RAdd(RAdd(RSub(RSub(RMul(RMul(m[1], m[10]), m[15]),
                     RMul(RMul(m[1], m[11]), m[14])),
                     RMul(RMul(m[9], m[2]), m[15])),
                     RMul(RMul(m[9], m[3]), m[14])),
                     RMul(RMul(m[13], m[2]), m[11])),
                     RMul(RMul(m[13], m[3]), m[10])),
                \* result.data[14]
                RAdd(RSub(RSub(RAdd(RAdd(RMul(RMul(RNeg(m[1]), m[6]), m[15]),
                     RMul(RMul(m[1], m[7]), m[14])),
                     RMul(RMul(m[5], m[2]), m[15])),
                     RMul(RMul(m[5], m[3]), m[14])),
                     RMul(RMul(m[13], m[2]), m[7])),
                     RMul(RMul(m[13], m[3]), m[6])),
                \* result.data[15]
                RSub(RAdd(RAdd(RSub(RSub(RMul(RMul(m[1], m[6]), m[11]),
                     RMul(RMul(m[1], m[7]), m[10])),
                     RMul(RMul(m[5], m[2]), m[11])),
                     RMul(RMul(m[5], m[3]), m[10])),
                     RMul(RMul(m[9], m[2]), m[7])),
                     RMul(RMul(m[9], m[3]), m[6]))>>}})

Inverse(m) ==
    Only({
      Only({
        <<RMul(result[1], det), RMul(result[2], det), RMul(result[3], det),
          RMul(result[4], det), RMul(result[5], det), RMul(result[6], det),
          RMul(result[7], det), RMul(result[8], det), RMul(result[9], det),
          RMul(result[10], det), RMul(result[11], det), RMul(result[12], det),
          RMul(result[13], det), RMul(result[14], det), RMul(result[15], det),
          RMul(result[16], det)>>
      : det \in {RDiv(I(1), RAdd(RAdd(RAdd(RMul(m[1], result[1]),
                                           RMul(m[2], result[5])),
                                      RMul(m[3], result[9])),
                                 RMul(m[4], result[13])))}})
    : result \in {<<
                \* result.data[0]
                RSub(RAdd(RAdd(RSub(RSub(RMul(RMul(m[6], m[11]), m[16]),
                     RMul(RMul(m[6], m[12]), m[15])),
                     RMul(RMul(m[10], m[7]), m[16])),
                     RMul(RMul(m[10], m[8]), m[15])),
                     RMul(RMul(m[14], m[7]), m[12])),
                     RMul(RMul(m[14], m[8]), m[11])),
                \* result.data[1]
                RAdd(RSub(RSub(RAdd(RAdd(RMul(RMul(RNeg(m[2]), m[11]), m[16]),
                     RMul(RMul(m[2], m[12]), m[15])),
                     RMul(RMul(m[10], m[3]), m[16])),
                     RMul(RMul(m[10], m[4]), m[15])),
                     RMul(RMul(m[14], m[3]), m[12])),
                     RMul(RMul(m[14], m[4]), m[11])),
                \* result.data[2]
                RSub(RAdd(RAdd(RSub(RSub(RMul(RMul(m[2], m[7]), m[16]),
                     RMul(RMul(m[2], m[8]), m[15])),
                     RMul(RMul(m[6], m[3]), m[16])),
                     RMul(RMul(m[6], m[4]), m[15])),
                     RMul(RMul(m[14], m[3]), m[8])),
                     RMul(RMul(m[14], m[4]), m[7])),
                \* result.data[3]
                RAdd(RSub(RSub(RAdd(RAdd(RMul(RMul(RNeg(m[2]), m[7]), m[12]),
                     RMul(RMul(m[2], m[8]), m[11])),
                     RMul(RMul(m[6], m[3]), m[12])),
                     RMul(RMul(m[6], m[4]), m[11])),
                     RMul(RMul(m[10], m[3]), m[8])),
                     RMul(RMul(m[10], m[4]), m[7])),
                \* result.data[4]
                RAdd(RSub(RSub(RAdd(RAdd(RMul(RMul(RNeg(m[5]), m[11]), m[16]),
                     RMul(RMul(m[5], m[12]), m[15])),
                     RMul(RMul(m[9], m[7]), m[16])),
                     RMul(RMul(m[9], m[8]), m[15])),
                     RMul(RMul(m[13], m[7]), m[12])),
                     RMul(RMul(m[13], m[8]), m[11])),
                \* result.data[5]
                RSub(RAdd(RAdd(RSub(RSub(RMul(RMul(m[1], m[11]), m[16]),
                     RMul(RMul(m[1], m[12]), m[15])),
                     RMul(RMul(m[9], m[3]), m[16])),
                     RMul(RMul(m[9], m[4]), m[15])),
                     RMul(RMul(m[13], m[3]), m[12])),
                     RMul(RMul(m[13], m[4]), m[11])),
                \* result.data[6]
                RAdd(RSub(RSub(RAdd(RAdd(RMul(RMul(RNeg(m[1]), m[7]), m[16]),
                     RMul(RMul(m[1], m[8]), m[15])),
                     RMul(RMul(m[5], m[3]), m[16])),
                     RMul(RMul(m[5], m[4]), m[15])),
                     RMul(RMul(m[13], m[3]), m[8])),
                     RMul(RMul(m[13], m[4]), m[7])),
                \* result.data[7]
                RSub(RAdd(RAdd(RSub(RSub(RMul(RMul(m[1], m[7]), m[12]),
                     RMul(RMul(m[1], m[8]), m[11])),
                     RMul(RMul(m[5], m[3]), m[12])),
                     RMul(RMul(m[5], m[4]), m[11])),
                     RMul(RMul(m[9], m[3]), m[8])),
                     RMul(RMul(m[9], m[4]), m[7])),
                \* result.data[8]
                RSub(RAdd(RAdd(RSub(RSub(RMul(RMul(m[5], m[10]), m[16]),
                     RMul(RMul(m[5], m[12]), m[14])),
                     RMul(RMul(m[9], m[6]), m[16])),
                     RMul(RMul(m[9], m[8]), m[14])),
                     RMul(RMul(m[13], m[6]), m[12])),
                     RMul(RMul(m[13], m[8]), m[10])),
                \* result.data[9]
                RAdd(RSub(RSub(RAdd(RAdd(RMul(RMul(RNeg(m[1]), m[10]), m[16]),
                     RMul(RMul(m[1], m[12]), m[14])),
                     RMul(RMul(m[9], m[2]), m[16])),
                     RMul(RMul(m[9], m[4]), m[14])),
                     RMul(RMul(m[13], m[2]), m[12])),
                     RMul(RMul(m[13], m[4]), m[10])),
                \* result.data[10]
                RSub(RAdd(RAdd(RSub(RSub(RMul(RMul(m[1], m[6]), m[16]),
                     RMul(RMul(m[1], m[8]), m[14])),
                     RMul(RMul(m[5], m[2]), m[16])),
                     RMul(RMul(m[5], m[4]), m[14])),
                     RMul(RMul(m[13], m[2]), m[8])),
                     RMul(RMul(m[13], m[4]), m[6])),
                \* result.data[11]
                RAdd(RSub(RSub(RAdd(RAdd(RMul(RMul(RNeg(m[1]), m[6]), m[12]),
                     RMul(RMul(m[1], m[8]), m[10])),
                     RMul(RMul(m[5], m[2]), m[12])),
                     RMul(RMul(m[5], m[4]), m[10])),
                     RMul(RMul(m[9], m[2]), m[8])),
                     RMul(RMul(m[9], m[4]), m[6])),
                \* result.data[12]
                RAdd(RSub(RSub(RAdd(RAdd(RMul(RMul(RNeg(m[5]), m[10]), m[15]),
                     RMul(RMul(m[5], m[11]), m[14])),
                     RMul(RMul(m[9], m[6]), m[15])),
                     RMul(RMul(m[9], m[7]), m[14])),
                     RMul(RMul(m[13], m[6]), m[11])),
                     RMul(RMul(m[13], m[7]), m[10])),
                \* result.data[13]
                RSub(RAdd(RAdd(RSub(RSub(RMul(RMul(m[1], m[10]), m[15]),
                     RMul(RMul(m[1], m[11]), m[14])),
                     RMul(RMul(m[9], m[2]), m[15])),
                     RMul(RMul(m[9], m[3]), m[14])),
                     RMul(RMul(m[13], m[2]), m[11])),
                     RMul(RMul(m[13], m[3]), m[10])),
                \* result.data[14]
                RAdd(RSub(RSub(RAdd(RAdd(RMul(RMul(RNeg(m[1]), m[6]), m[15]),
                     RMul(RMul(m[1], m[7]), m[14])),
                     RMul(RMul(m[5], m[2]), m[15])),
                     RMul(RMul(m[5], m[3]), m[14])),
                     RMul(RMul(m[13], m[2]), m[7])),
                     RMul(RMul(m[13], m[3]), m[6])),
                \* result.data[15]
                RSub(RAdd(RAdd(RSub(RSub(RMul(RMul(m[1], m[6]), m[11]),
                     RMul(RMul(m[1], m[7]), m[10])),
                     RMul(RMul(m[5], m[2]), m[11])),
                     RMul(RMul(m[5], m[3]), m[10])),
                     RMul(RMul(m[9], m[2]), m[7])),
                     RMul(RMul(m[9], m[3]), m[6]))>>}})

----------------------------------------------------------------------------
(* Color (color.rs) *)

ColorNew(r, g, b) == [b |-> b, g |-> g, r |-> r]

\* a colour with whole-number channels
C(r, g, b) == ColorNew(I(r), I(g), I(b))

Black == ColorNew(I(0), I(0), I(0))

CAdd(a, b) == ColorNew(RAdd(a.r, b.r), RAdd(a.g, b.g), RAdd(a.b, b.b))

CMul(a, b) == ColorNew(RMul(a.r, b.r), RMul(a.g, b.g), RMul(a.b, b.b))

CScale(a, k) == ColorNew(RMul(a.r, k), RMul(a.g, k), RMul(a.b, k))

\* impl Index<usize> for Color: color[index]; ok is FALSE where it panics
ColorIndex(color, index) ==
    CASE index = 0 -> [ok |-> TRUE, value |-> color.r]
      [] index = 1 -> [ok |-> TRUE, value |-> color.g]
      [] index = 2 -> [ok |-> TRUE, value |-> color.b]
      [] OTHER -> [ok |-> FALSE, value |-> NaN]

\* impl IndexMut<usize> for Color: color[index] = v
ColorIndexMut(color, index, v) ==
    CASE index = 0 -> [ok |-> TRUE, after |-> [color EXCEPT !.r = v]]
      [] index = 1 -> [ok |-> TRUE, after |-> [color EXCEPT !.g = v]]
      [] index = 2 -> [ok |-> TRUE, after |-> [color EXCEPT !.b = v]]
      [] OTHER -> [ok |-> FALSE, after |-> color]

\* `x as i32` of an f64: towards zero, saturating, NaN to 0
AsI32(x) ==
    IF IsNaN(x) THEN 0
    ELSE IF x[2] = 0 THEN (IF x[1] > 0 THEN 2147483647 ELSE -2147483647 - 1)
    ELSE IF x[1] >= 0 THEN x[1] \div x[2]
    ELSE -((-x[1]) \div x[2])

\* i32::clamp(min, max)
Clamp(n, min, max) == IF n < min THEN min ELSE IF n > max THEN max ELSE n

\* mutant of Channel: the channel is scaled by 255
Channel_Scale255(c) == Clamp(AsI32(RMul(c, I(255))), 0, 255)

\* ((self.r * 256.0) as i32).clamp(0, 255), one channel of Display::fmt
Channel(c) == Clamp(AsI32(RMul(c, I(256))), 0, 255)

\* impl Display for Color: write!(f, "{} {} {}", r, g, b).  A text is the
\* sequence of its pieces; `{}` of an integer is its decimal numeral.
ColorDisplay(color) ==
    Only({
      <<ToString(r), " ", ToString(g), " ", ToString(b)>>
    : r \in {Channel(color.r)}, g \in {Channel(color.g)}, b \in {Channel(color.b)}})

----------------------------------------------------------------------------
(* Ray (ray.rs) and PointLight (light.rs) *)

RayNew(origin, direction) == [origin |-> origin, direction |-> direction]

RayAt(ray, t) == TAdd(ray.origin, TMul(ray.direction, t))

RayTransform(ray, m) ==
    [origin |-> MatVec(m, ray.origin), direction |-> MatVec(m, ray.direction)]

PointLightNew(position, color) == [color |-> color, position |-> position]

----------------------------------------------------------------------------
(* Texture (texture.rs, texture/solid_color.rs, texture/stripe.rs) *)

SolidColorNew(color) ==
    [color |-> color, kind |-> "SolidColor", transform |-> Eye, transform_inverse |-> Eye]

StripeNew(texture1, texture2) ==
    [kind |-> "Stripe", transform |-> Eye, transform_inverse |-> Eye,
     texture1 |-> texture1, texture2 |-> texture2]

StripeColors(color1, color2) == StripeNew(SolidColorNew(color1), SolidColorNew(color2))

\* Stripe::set_transform; SolidColor::set_transform does nothing
TextureSetTransform(texture, transform) ==
    IF texture.kind = "SolidColor" THEN texture
    ELSE [texture EXCEPT !.transform_inverse = Inverse(transform), !.transform = transform]

\* x.floor() as i32: the cast saturates at i32::MIN and i32::MAX and sends
\* NaN to 0
FloorAsI32(x) ==
    IF IsNaN(x) THEN 0
    ELSE IF x[2] = 0 THEN (IF x[1] > 0 THEN 2147483647 ELSE -2147483647 - 1)
    ELSE IF x[2] < 0
         THEN (IF x[1] >= 32768 THEN 2147483647
               ELSE IF x[1] <= -32768 THEN -2147483647 - 1
               ELSE x[1] * 65536)
    ELSE x[1] \div x[2]

RECURSIVE ColorAtTexture(_, _)

\* mutant of TextureColorAt: the stripes run across the diagonal of x and y
TextureColorAt_Diagonal(texture, point) ==
    IF texture.kind = "SolidColor" THEN texture.color
    ELSE IF FloorAsI32(RAdd(point.x, point.y)) % 2 = 0
         THEN ColorAtTexture(texture.texture1, point)
    ELSE ColorAtTexture(texture.texture2, point)

\* Texture::color_at of the two implementations; n % 2 == 0 of Rust holds
\* exactly when n is even, whatever the sign of n
TextureColorAt(texture, point) ==
    IF texture.kind = "SolidColor" THEN texture.color
    ELSE IF FloorAsI32(point.x) % 2 = 0 THEN ColorAtTexture(texture.texture1, point)
    ELSE ColorAtTexture(texture.texture2, point)

ColorAtTexture(texture, point) ==
    TextureColorAt(texture, MatVec(texture.transform_inverse, point))

\* mutant of ColorAtShape: the texture's inverse is applied before the shape's
ColorAtShape_TextureFirst(texture, point, shape) ==
    Only({
      TextureColorAt(texture, MatVec(shape.transform_inverse, local))
    : local \in {MatVec(texture.transform_inverse, point)}})

ColorAtShape(texture, point, shape) ==
    Only({
      ColorAtTexture(texture, local)
    : local \in {MatVec(shape.transform_inverse, point)}})

----------------------------------------------------------------------------
(* Material (material.rs) *)

MaterialNew(color, ambient, diffuse, specular, shininess) ==
    [color |-> color, ambient |-> ambient, diffuse |-> diffuse,
     specular |-> specular, shininess |-> shininess]

MaterialDefault ==
    MaterialNew(C(1, 1, 1), Norm(1, 10), Norm(9, 10), Norm(9, 10), I(200))

\* mutant of Lighting: the in_shadow flag is ignored
Lighting_ShadowIgnored(m, light, position, eye, normal, in_shadow) ==
    Only({
      Only({
        IF RLt(light_dot_normal, I(0)) THEN ambient
        ELSE Only({
               IF RLe(reflect_dot_eye, I(0)) THEN CAdd(ambient, diffuse)
               ELSE Only({
                      CAdd(CAdd(ambient, diffuse),
                           CScale(CScale(light.color, m.specular), factor))
                    : factor \in {RPow(reflect_dot_eye, m.shininess[1])}})
             : diffuse \in {CScale(CScale(color, m.diffuse), light_dot_normal)},
               reflect_dot_eye \in {Dot(Reflect(TNeg(lightv), normal), eye)}})
      : ambient \in {CScale(color, m.ambient)},
        light_dot_normal \in {Dot(lightv, normal)}})
    : color \in {CMul(m.color, light.color)},
      lightv \in {Normalized(TSub(light.position, position))}})

Lighting(m, light, position, eye, normal, in_shadow) ==
    Only({
      Only({
        IF in_shadow \/ RLt(light_dot_normal, I(0)) THEN ambient
        ELSE Only({
               IF RLe(reflect_dot_eye, I(0)) THEN CAdd(ambient, diffuse)
               ELSE Only({
                      CAdd(CAdd(ambient, diffuse),
                           CScale(CScale(light.color, m.specular), factor))
                    : factor \in {RPow(reflect_dot_eye, m.shininess[1])}})
             : diffuse \in {CScale(CScale(color, m.diffuse), light_dot_normal)},
               reflect_dot_eye \in {Dot(Reflect(TNeg(lightv), normal), eye)}})
      : ambient \in {CScale(color, m.ambient)},
        light_dot_normal \in {Dot(lightv, normal)}})
    : color \in {CMul(m.color, light.color)},
      lightv \in {Normalized(TSub(light.position, position))}})

----------------------------------------------------------------------------
(* Intersection (intersection.rs) *)

\* Intersection::new with the value fetch_add returned; the caller advances ID
IntersectionNew(t, shape, id) == [t |-> t, shape |-> shape, id |-> id]

\* PartialOrd for Intersection
PartialCmp(a, b) ==
    IF IsNaN(a.t) \/ IsNaN(b.t) THEN "None"
    ELSE IF RLt(a.t, b.t) THEN "Less"
    ELSE IF RGt(a.t, b.t) THEN "Greater"
    ELSE "Equal"

\* Hit for Vec<Intersection>: the position (1..) of the element returned, 0 for None
RECURSIVE HitFrom(_, _)
HitFrom(list, k) ==
    IF k > Len(list) THEN 0
    ELSE IF RGt(list[k].t, I(0)) THEN k
    ELSE HitFrom(list, k + 1)

\* mutant of Hit: t >= 0 counts as a hit
RECURSIVE HitFromGe(_, _)
HitFromGe(list, k) ==
    IF k > Len(list) THEN 0
    ELSE IF RGe(list[k].t, I(0)) THEN k
    ELSE HitFromGe(list, k + 1)

Hit_ZeroHits(list) == HitFromGe(list, 1)

\* mutant of Hit: the identifier is tested instead of t
RECURSIVE HitFromId(_, _)
HitFromId(list, k) ==
    IF k > Len(list) THEN 0
    ELSE IF list[k].id > 0 THEN k
    ELSE HitFromId(list, k + 1)

Hit_ById(list) == HitFromId(list, 1)

Hit(list) == HitFrom(list, 1)

----------------------------------------------------------------------------
(* Sphere (sphere.rs), the shape World holds *)

SphereNew == [transform |-> Eye, transform_inverse |-> Eye, material |-> MaterialDefault]

SetTransform(s, transform) ==
    [s EXCEPT !.transform_inverse = Inverse(transform), !.transform = transform]

\* mutant of SphereIntersect: the counter is taken down (fetch_sub)
SphereIntersect_FetchSub(s, ray, id) ==
    Only({
      Only({
        Only({
          Only({
            IF RLt(d, I(0)) THEN [xs |-> <<>>, id |-> id]
            ELSE Only({
                   [xs |-> <<IntersectionNew(RDiv(RSub(RNeg(b), sqrtd), a), s, id),
                             IntersectionNew(RDiv(RAdd(RNeg(b), sqrtd), a), s, id - 1)>>,
                    id |-> id - 2]
                 : sqrtd \in {RSqrt(d)}})
          : d \in {RSub(RMul(b, b), RMul(a, c))}})
        : a \in {NormSquared(r.direction)},
          b \in {Dot(r.direction, oc)},
          c \in {RSub(NormSquared(oc), I(1))}})
      : oc \in {TSub(r.origin, P(0, 0, 0))}})
    : r \in {RayTransform(ray, s.transform_inverse)}})

\* Sphere::intersect: the intersections and the counter after them
SphereIntersect(s, ray, id) ==
    Only({
      Only({
        Only({
          Only({
            IF RLt(d, I(0)) THEN [xs |-> <<>>, id |-> id]
            ELSE Only({
                   [xs |-> <<IntersectionNew(RDiv(RSub(RNeg(b), sqrtd), a), s, id),
                             IntersectionNew(RDiv(RAdd(RNeg(b), sqrtd), a), s, id + 1)>>,
                    id |-> id + 2]
                 : sqrtd \in {RSqrt(d)}})
          : d \in {RSub(RMul(b, b), RMul(a, c))}})
        : a \in {NormSquared(r.direction)},
          b \in {Dot(r.direction, oc)},
          c \in {RSub(NormSquared(oc), I(1))}})
      : oc \in {TSub(r.origin, P(0, 0, 0))}})
    : r \in {RayTransform(ray, s.transform_inverse)}})

SphereNormalAt(s, point) ==
    Only({
      Only({
        Normalized(Vector(n.x, n.y, n.z))
      : n \in {MatVec([i \in 1..16 |->
                          At(s.transform_inverse, (i - 1) % 4, (i - 1) \div 4)],
                      TSub(local, P(0, 0, 0)))}})
    : local \in {MatVec(s.transform_inverse, point)}})

----------------------------------------------------------------------------
(* Plane (shape/plane.rs) *)

PlaneSetTransform(s, transform) ==
    [s EXCEPT !.transform_inverse = Inverse(transform), !.transform = transform]

\* mutant of PlaneLocalIntersect: the sign of t is lost
PlaneLocalIntersect_Unsigned(s, ray, id) ==
    IF RLt(IF RLt(ray.direction.y, I(0)) THEN RNeg(ray.direction.y) ELSE ray.direction.y,
           Norm(1, 1000000))
    THEN [xs |-> <<>>, id |-> id]
    ELSE Only({
           [xs |-> <<IntersectionNew(t, s, id)>>, id |-> id + 1]
         : t \in {RDiv(ray.origin.y, ray.direction.y)}})

\* Plane::local_intersect, with const EPS = 0.000_001 of plane.rs: the
\* intersections and the counter after them
PlaneLocalIntersect(s, ray, id) ==
    IF RLt(IF RLt(ray.direction.y, I(0)) THEN RNeg(ray.direction.y) ELSE ray.direction.y,
           Norm(1, 1000000))
    THEN [xs |-> <<>>, id |-> id]
    ELSE Only({
           [xs |-> <<IntersectionNew(t, s, id)>>, id |-> id + 1]
         : t \in {RDiv(RNeg(ray.origin.y), ray.direction.y)}})

----------------------------------------------------------------------------
(* Shape (shape.rs) and Sphere::local_intersect (shape/sphere.rs) *)

\* mutant of SphereLocalIntersect: the farther intersection comes first
SphereLocalIntersect_FartherFirst(s, ray, id) ==
    Only({
      Only({
        Only({
          IF RLt(d, I(0)) THEN [xs |-> <<>>, id |-> id]
          ELSE Only({
                 [xs |-> <<IntersectionNew(RDiv(RAdd(RNeg(b), sqrtd), a), s, id),
                           IntersectionNew(RDiv(RSub(RNeg(b), sqrtd), a), s, id + 1)>>,
                  id |-> id + 2]
               : sqrtd \in {RSqrt(d)}})
        : d \in {RSub(RMul(b, b), RMul(a, c))}})
      : a \in {NormSquared(ray.direction)},
        b \in {Dot(ray.direction, oc)},
        c \in {RSub(NormSquared(oc), I(1))}})
    : oc \in {TSub(ray.origin, P(0, 0, 0))}})

\* Sphere::local_intersect (shape/sphere.rs): the intersections and the
\* counter after them
SphereLocalIntersect(s, ray, id) ==
    Only({
      Only({
        Only({
          IF RLt(d, I(0)) THEN [xs |-> <<>>, id |-> id]
          ELSE Only({
                 [xs |-> <<IntersectionNew(RDiv(RSub(RNeg(b), sqrtd), a), s, id),
                           IntersectionNew(RDiv(RAdd(RNeg(b), sqrtd), a), s, id + 1)>>,
                  id |-> id + 2]
               : sqrtd \in {RSqrt(d)}})
        : d \in {RSub(RMul(b, b), RMul(a, c))}})
      : a \in {NormSquared(ray.direction)},
        b \in {Dot(ray.direction, oc)},
        c \in {RSub(NormSquared(oc), I(1))}})
    : oc \in {TSub(ray.origin, P(0, 0, 0))}})

\* self.local_intersect(ray) of a dyn Shape
LocalIntersectOf(kind, s, ray, id) ==
    IF kind = "Sphere" THEN SphereLocalIntersect(s, ray, id)
    ELSE PlaneLocalIntersect(s, ray, id)

\* mutant of ShapeIntersect: the direction of the local ray is renormalized
ShapeIntersect_Renormalized(kind, s, ray, id) ==
    Only({
      LocalIntersectOf(kind, s, RayNew(local.origin, Normalized(local.direction)), id)
    : local \in {RayTransform(ray, s.transform_inverse)}})

\* Shape::intersect
ShapeIntersect(kind, s, ray, id) ==
    LocalIntersectOf(kind, s, RayTransform(ray, s.transform_inverse), id)

----------------------------------------------------------------------------
(* HitRecord (intersection.rs) *)

\* const EPS (0.000_001 in the source).  The model takes EPS = 1/1000: the
\* square of a distance measured from an over_point must fit TLC's integers.
\* Every use of EPS is a product with a unit normal, so the value scales the
\* offset and nothing else.
EPS == Norm(1, 1000)

\* mutant of HitRecordNew: inside is set but the normal is not negated
HitRecordNew_NoFlip(intersection, ray) ==
    Only({
      Only({
        Only({
          [normal |-> normal0, t |-> intersection.t, point |-> point,
           shape |-> intersection.shape,
           eye |-> eye,
           over_point |-> TAdd(point, TMul(normal0, EPS)),
           under_point |-> TSub(point, TMul(normal0, EPS)), inside |-> inside]
        : inside \in {RLt(Dot(normal0, eye), I(0))}})
      : normal0 \in {SphereNormalAt(intersection.shape, point)}})
    : point \in {RayAt(ray, intersection.t)}, eye \in {TNeg(ray.direction)}})

\* mutant of HitRecordNew: the offsets follow the normal normal_at returned,
\* not the flipped one
HitRecordNew_OuterNormal(intersection, ray) ==
    Only({
      Only({
        Only({
          Only({
            [normal |-> normal, t |-> intersection.t, point |-> point,
             shape |-> intersection.shape,
             eye |-> eye,
             over_point |-> TAdd(point, TMul(normal0, EPS)),
             under_point |-> TSub(point, TMul(normal0, EPS)), inside |-> inside]
          : normal \in {IF inside THEN TNeg(normal0) ELSE normal0}})
        : inside \in {RLt(Dot(normal0, eye), I(0))}})
      : normal0 \in {SphereNormalAt(intersection.shape, point)}})
    : point \in {RayAt(ray, intersection.t)}, eye \in {TNeg(ray.direction)}})

\* `let mut normal` is normal0 before the flip and normal after it
HitRecordNew(intersection, ray) ==
    Only({
      Only({
        Only({
          Only({
            [normal |-> normal, t |-> intersection.t, point |-> point,
             shape |-> intersection.shape,
             eye |-> eye,
             over_point |-> TAdd(point, TMul(normal, EPS)),
             under_point |-> TSub(point, TMul(normal, EPS)), inside |-> inside]
          : normal \in {IF inside THEN TNeg(normal0) ELSE normal0}})
        : inside \in {RLt(Dot(normal0, eye), I(0))}})
      : normal0 \in {SphereNormalAt(intersection.shape, point)}})
    : point \in {RayAt(ray, intersection.t)}, eye \in {TNeg(ray.direction)}})

----------------------------------------------------------------------------
(* World (world.rs).  An operator that can panic returns ok = FALSE.       *)

\* One insertion of slice::sort_unstable_by: for the lists a world of up to
\* ten spheres gives (20 elements) the standard library sorts by insertion,
\* shifting x left while compare(x, previous) is Less.  The comparator is
\* a.partial_cmp(b).unwrap(), which panics on None.
RECURSIVE InsertTail(_, _)
InsertTail(s, x) ==
    IF s = <<>> THEN [xs |-> <<x>>, ok |-> TRUE]
    ELSE LET last == s[Len(s)]
             c == PartialCmp(x, last)
         IN  IF c = "None" THEN [xs |-> Append(s, x), ok |-> FALSE]
             ELSE IF c = "Less"
                  THEN LET r == InsertTail(SubSeq(s, 1, Len(s) - 1), x)
                       IN  [xs |-> Append(r.xs, last), ok |-> r.ok]
             ELSE [xs |-> Append(s, x), ok |-> TRUE]

RECURSIVE SortFrom(_, _, _)
SortFrom(list, k, acc) ==
    IF k > Len(list) \/ ~acc.ok THEN acc
    ELSE SortFrom(list, k + 1, InsertTail(acc.xs, list[k]))

\* mutant of SortUnstableBy: the list is left as appended
SortUnstableBy_NoSort(list) == [xs |-> list, ok |-> TRUE]

SortUnstableBy(list) ==
    IF Len(list) < 2 THEN [xs |-> list, ok |-> TRUE]
    ELSE SortFrom(list, 2, [xs |-> <<list[1]>>, ok |-> TRUE])

\* The orders of a list s sorted by partial_cmp in which elements that compare
\* Equal may have changed places.
RECURSIVE TieOrders(_)
TieOrders(s) ==
    IF s = <<>> THEN {<<>>}
    ELSE UNION {{<<s[i]>> \o rest
                 : rest \in TieOrders(SubSeq(s, 1, i - 1) \o SubSeq(s, i + 1, Len(s)))}
               : i \in {i \in 1..Len(s) : PartialCmp(s[i], s[1]) = "Equal"}}

\* What slice::sort_unstable_by may leave in the list.  Up to 20 elements it
\* sorts by insertion (SortUnstableBy); for a longer list the library only
\* promises a sorted list in which equal elements may be reordered, and which
\* of these orders results is not fixed by this repository.  Every element
\* is compared at least once, so a NaN t panics here as well.
SortUnstableByOutcomes(list) ==
    IF Len(list) <= 20 THEN {SortUnstableBy(list)}
    ELSE UNION {IF s.ok THEN {[xs |-> o, ok |-> TRUE] : o \in TieOrders(s.xs)}
                ELSE {s}
               : s \in {SortUnstableBy(list)}}

\* the loop of World::intersect over self.shapes, from shape k on
RECURSIVE AppendFrom(_, _, _, _)
AppendFrom(ss, k, ray, acc) ==
    IF k > Len(ss) THEN acc
    ELSE Only({
           AppendFrom(ss, k + 1, ray, [xs |-> acc.xs \o r.xs, id |-> r.id])
         : r \in {SphereIntersect(ss[k], ray, acc.id)}})

WorldIntersect(ss, ray, id) ==
    Only({
      Only({
        [xs |-> sorted.xs, ok |-> sorted.ok, id |-> all.id]
      : sorted \in {SortUnstableBy(all.xs)}})
    : all \in {AppendFrom(ss, 1, ray, [xs |-> <<>>, id |-> id])}})

\* mutant of IsShadowed: an occluder at the light itself (t = distance) shadows
IsShadowed_AtLight(ss, ls, light_index, point, id) ==
    IF light_index \notin 1..Len(ls) THEN [ok |-> FALSE, id |-> id, val |-> FALSE]
    ELSE Only({
           Only({
             Only({
               Only({
                 [ok |-> intersections.ok,
                  id |-> intersections.id,
                  val |-> intersections.ok /\ h # 0
                          /\ RLe(intersections.xs[h].t, distance)]
               : h \in {Hit(intersections.xs)}})
             : intersections \in
                   {WorldIntersect(ss, RayNew(point, TDiv(v, distance)), id)}})
           : distance \in {TNorm(v)}})
         : v \in {TSub(ls[light_index].position, point)}})

\* light_index counts from 1 here (from 0 in the source)
IsShadowed(ss, ls, light_index, point, id) ==
    IF light_index \notin 1..Len(ls) THEN [ok |-> FALSE, id |-> id, val |-> FALSE]
    ELSE Only({
           Only({
             Only({
               Only({
                 [ok |-> intersections.ok,
                  id |-> intersections.id,
                  val |-> intersections.ok /\ h # 0
                          /\ RLt(intersections.xs[h].t, distance)]
               : h \in {Hit(intersections.xs)}})
             : intersections \in
                   {WorldIntersect(ss, RayNew(point, TDiv(v, distance)), id)}})
           : distance \in {TNorm(v)}})
         : v \in {TSub(ls[light_index].position, point)}})

\* mutant of ShadeHit: the shadow ray starts at rec.point
ShadeHit_FromPoint(ss, ls, light_index, rec, id) ==
    IF light_index \notin 1..Len(ls) THEN [ok |-> FALSE, color |-> Black, id |-> id]
    ELSE Only({
           [ok |-> s.ok,
            color |-> IF s.ok
                      THEN Lighting(rec.shape.material, ls[light_index],
                                    rec.point, rec.eye, rec.normal, s.val)
                      ELSE Black,
            id |-> s.id]
         : s \in {IsShadowed(ss, ls, light_index, rec.point, id)}})

ShadeHit(ss, ls, light_index, rec, id) ==
    IF light_index \notin 1..Len(ls) THEN [ok |-> FALSE, color |-> Black, id |-> id]
    ELSE Only({
           [ok |-> s.ok,
            color |-> IF s.ok
                      THEN Lighting(rec.shape.material, ls[light_index],
                                    rec.point, rec.eye, rec.normal, s.val)
                      ELSE Black,
            id |-> s.id]
         : s \in {IsShadowed(ss, ls, light_index, rec.over_point, id)}})

\* mutant of ShadeFrom: result = color instead of result += color
RECURSIVE ShadeFrom_Overwrite(_, _, _, _, _)
ShadeFrom_Overwrite(ss, ls, rec, k, acc) ==
    IF k > Len(ls) \/ ~acc.ok THEN acc
    ELSE Only({
           ShadeFrom_Overwrite(ss, ls, rec, k + 1,
                               [ok |-> c.ok, color |-> c.color, id |-> c.id])
         : c \in {ShadeHit(ss, ls, k, rec, acc.id)}})

\* the loop of World::color_at over self.lights, from light k on
RECURSIVE ShadeFrom(_, _, _, _, _)
ShadeFrom(ss, ls, rec, k, acc) ==
    IF k > Len(ls) \/ ~acc.ok THEN acc
    ELSE Only({
           ShadeFrom(ss, ls, rec, k + 1,
                     [ok |-> c.ok, color |-> CAdd(acc.color, c.color), id |-> c.id])
         : c \in {ShadeHit(ss, ls, k, rec, acc.id)}})

ColorAt(ss, ls, ray, id) ==
    Only({
      Only({
        IF ~intersections.ok THEN [ok |-> FALSE, color |-> Black, id |-> intersections.id]
        ELSE IF h = 0 THEN [ok |-> TRUE, color |-> Black, id |-> intersections.id]
        ELSE Only({
               ShadeFrom(ss, ls, rec, 1,
                         [ok |-> TRUE, color |-> Black, id |-> intersections.id])
             : rec \in {HitRecordNew(intersections.xs[h], ray)}})
      : h \in {Hit(intersections.xs)}})
    : intersections \in {WorldIntersect(ss, ray, id)}})

----------------------------------------------------------------------------
(* Canvas (canvas.rs): pixels is the Vec of rows *)

CanvasNew(width, height) ==
    [pixels |-> [row \in 1..height |-> [col \in 1..width |-> Black]]]

CanvasWidth(cv) == IF Len(cv.pixels) = 0 THEN 0 ELSE Len(cv.pixels[1])

CanvasHeight(cv) == Len(cv.pixels)

\* whether canvas[[x, y]] is inside the two Vecs (it panics otherwise)
CanvasInRange(cv, x, y) ==
    /\ y + 1 \in 1..Len(cv.pixels)
    /\ x + 1 \in 1..Len(cv.pixels[y + 1])

\* canvas[[x, y]]
CanvasGet(cv, x, y) == cv.pixels[y + 1][x + 1]

\* mutant of CanvasSet: row and column exchanged
CanvasSet_Transposed(cv, x, y, color) == [cv EXCEPT !.pixels[x + 1][y + 1] = color]

\* canvas[[x, y]] = color
CanvasSet(cv, x, y, color) == [cv EXCEPT !.pixels[y + 1][x + 1] = color]

\* impl Index<[usize; 2]> for Canvas: &self.pixels[index[1]][index[0]]; ok is
\* FALSE where one of the two Vec indexings panics
CanvasIndex(cv, x, y) ==
    IF y >= Len(cv.pixels) THEN [ok |-> FALSE, value |-> Black]
    ELSE IF x >= Len(cv.pixels[y + 1]) THEN [ok |-> FALSE, value |-> Black]
    ELSE [ok |-> TRUE, value |-> cv.pixels[y + 1][x + 1]]

\* impl IndexMut<[usize; 2]> for Canvas: canvas[[x, y]] = color
CanvasIndexMut(cv, x, y, color) ==
    IF y >= Len(cv.pixels) THEN [ok |-> FALSE, after |-> cv]
    ELSE IF x >= Len(cv.pixels[y + 1]) THEN [ok |-> FALSE, after |-> cv]
    ELSE [ok |-> TRUE, after |-> CanvasSet(cv, x, y, color)]

\* one write!/writeln! into `file: &mut dyn Write`: the sink's fail_at-th write
\* fails with the sink's error and adds nothing to the text
SinkWrite(snk, text) ==
    IF snk.calls + 1 = snk.fail_at
    THEN [sink |-> [snk EXCEPT !.calls = @ + 1], ok |-> FALSE, error |-> snk.error]
    ELSE [sink |-> [snk EXCEPT !.calls = @ + 1, !.out = @ \o text], ok |-> TRUE,
          error |-> "none"]

\* the two loops of Canvas::to_ppm from pixel `col` of row `row` on (both
\* counted from 1): writeln!(file, "{}", color)?
RECURSIVE PpmFrom(_, _, _, _)
PpmFrom(cv, row, col, snk) ==
    IF row > Len(cv.pixels) THEN [sink |-> snk, ok |-> TRUE, error |-> "none"]
    ELSE IF col > Len(cv.pixels[row]) THEN PpmFrom(cv, row + 1, 1, snk)
    ELSE Only({
           IF ~w.ok THEN w ELSE PpmFrom(cv, row, col + 1, w.sink)
         : w \in {SinkWrite(snk, ColorDisplay(cv.pixels[row][col]) \o <<"\n">>)}})

\* mutant of ToPpm: the pixels are written column by column
RECURSIVE PpmFromColumns(_, _, _, _)
PpmFromColumns(cv, row, col, snk) ==
    IF col > CanvasWidth(cv) THEN [sink |-> snk, ok |-> TRUE, error |-> "none"]
    ELSE IF row > Len(cv.pixels) THEN PpmFromColumns(cv, 1, col + 1, snk)
    ELSE Only({
           IF ~w.ok THEN w ELSE PpmFromColumns(cv, row + 1, col, w.sink)
         : w \in {SinkWrite(snk, ColorDisplay(cv.pixels[row][col]) \o <<"\n">>)}})

ToPpm_ColumnMajor(cv, snk) ==
    Only({
      IF ~header.ok THEN header ELSE PpmFromColumns(cv, 1, 1, header.sink)
    : header \in {SinkWrite(snk, <<"P3", "\n", ToString(CanvasWidth(cv)), " ",
                                   ToString(CanvasHeight(cv)), "\n", "255", "\n">>)}})

\* mutant of ToPpm: the result of a pixel's write is dropped instead of
\* returned with `?`
RECURSIVE PpmFromIgnoring(_, _, _, _)
PpmFromIgnoring(cv, row, col, snk) ==
    IF row > Len(cv.pixels) THEN [sink |-> snk, ok |-> TRUE, error |-> "none"]
    ELSE IF col > Len(cv.pixels[row]) THEN PpmFromIgnoring(cv, row + 1, 1, snk)
    ELSE Only({
           PpmFromIgnoring(cv, row, col + 1, w.sink)
         : w \in {SinkWrite(snk, ColorDisplay(cv.pixels[row][col]) \o <<"\n">>)}})

ToPpm_ErrorsDropped(cv, snk) ==
    Only({
      IF ~header.ok THEN header ELSE PpmFromIgnoring(cv, 1, 1, header.sink)
    : header \in {SinkWrite(snk, <<"P3", "\n", ToString(CanvasWidth(cv)), " ",
                                   ToString(CanvasHeight(cv)), "\n", "255", "\n">>)}})

\* Canvas::to_ppm(&self, file): the header, then the pixels, each write
\* followed by `?`; Ok(()) at the end.  The result is Ok (ok) or the Err the
\* failing write returned (error), with the sink as the call leaves it.
ToPpm(cv, snk) ==
    Only({
      IF ~header.ok THEN header ELSE PpmFrom(cv, 1, 1, header.sink)
    : header \in {SinkWrite(snk, <<"P3", "\n", ToString(CanvasWidth(cv)), " ",
                                   ToString(CanvasHeight(cv)), "\n", "255", "\n">>)}})

----------------------------------------------------------------------------
(* Camera (camera.rs).  cfg.half_view stands for tan(cfg.fov / 2), which   *)
(* the model takes as given instead of fov.                                *)

\* mutant of CameraNew: the pixel size is taken from the height
CameraNew_PixelFromHeight(cfg) ==
    Only({
      Only({
        Only({
          [transform_inverse |-> transform_inverse, hsize |-> cfg.hsize,
           vsize |-> cfg.vsize, half_height |-> halves[2],
           half_width |-> halves[1],
           pixel_size |-> RDiv(RMul(halves[2], I(2)), I(cfg.hsize))]
        : halves \in {IF RGe(aspect, I(1))
                      THEN <<half_view, RDiv(half_view, aspect)>>
                      ELSE <<RMul(half_view, aspect), half_view>>}})
      : half_view \in {cfg.half_view},
        aspect \in {RDiv(I(cfg.hsize), I(cfg.vsize))}})
    : transform_inverse \in {Inverse(ViewTransform(cfg.from, cfg.at, cfg.up))}})

CameraNew(cfg) ==
    Only({
      Only({
        Only({
          [transform_inverse |-> transform_inverse, hsize |-> cfg.hsize,
           vsize |-> cfg.vsize, half_height |-> halves[2],
           half_width |-> halves[1],
           pixel_size |-> RDiv(RMul(halves[1], I(2)), I(cfg.hsize))]
        : halves \in {IF RGe(aspect, I(1))
                      THEN <<half_view, RDiv(half_view, aspect)>>
                      ELSE <<RMul(half_view, aspect), half_view>>}})
      : half_view \in {cfg.half_view},
        aspect \in {RDiv(I(cfg.hsize), I(cfg.vsize))}})
    : transform_inverse \in {Inverse(ViewTransform(cfg.from, cfg.at, cfg.up))}})

RayForPixel(c, x, y) ==
    Only({
      Only({
        Only({
          RayNew(origin, Normalized(TSub(pixel, origin)))
        : pixel \in {MatVec(c.transform_inverse, Point(world_x, world_y, I(-1)))},
          origin \in {MatVec(c.transform_inverse, P(0, 0, 0))}})
      : world_x \in {RSub(c.half_width, offset_x)},
        world_y \in {RSub(c.half_height, offset_y)}})
    : offset_x \in {RMul(RAdd(I(x), Norm(1, 2)), c.pixel_size)},
      offset_y \in {RMul(RAdd(I(y), Norm(1, 2)), c.pixel_size)}})

----------------------------------------------------------------------------
(* The scenes the model draws.  Everything lies on the z axis, where every *)
(* norm and every discriminant is a rational square.                       *)

\* sphere1 and sphere2 of test_world (world.rs:101-121) and the translated
\* sphere of shade_hit_intersection_in_shadow (world.rs:183-185)
SphereA ==
    [SphereNew EXCEPT !.material =
                          MaterialNew(ColorNew(Norm(8, 10), I(1), Norm(6, 10)),
                                      Norm(1, 10), Norm(7, 10), Norm(2, 10), I(200))]

SphereB == SetTransform(SphereNew, Scaling(Norm(1, 2), Norm(1, 2), Norm(1, 2)))

SphereC == SetTransform(SphereNew, Translation(I(0), I(0), I(10)))

LightFront == PointLightNew(P(0, 0, -10), C(1, 1, 1))

LightBack == PointLightNew(P(0, 0, 20), ColorNew(I(1), Norm(1, 2), I(0)))

AxisRays ==
    {RayNew(P(0, 0, -5), V(0, 0, 1)),    \* towards the spheres
     RayNew(P(0, 0, 0), V(0, 0, 1)),     \* from inside SphereA and SphereB
     RayNew(P(0, 0, 5), V(0, 0, 1)),     \* SphereA and SphereB behind the origin
     RayNew(P(0, 0, -5), V(0, 0, -1)),   \* everything behind the origin
     RayNew(P(0, 0, -5), V(0, 1, 0))}    \* misses everything

\* the cameras of the model stand at (0, 0, -5) and look at the origin, as
\* the camera of tests::render (camera.rs:198-218); hsize, vsize and
\* tan(fov / 2) are such that every pixel's direction has a rational length
RenderConfig(hsize, vsize, half_view) ==
    [from |-> P(0, 0, -5), at |-> P(0, 0, 0), up |-> V(0, 1, 0),
     hsize |-> hsize, vsize |-> vsize, half_view |-> half_view]

NoCamera == [hsize |-> 0, vsize |-> 0]

NoCall == [op |-> "none"]

NoObject == [kind |-> "none"]

----------------------------------------------------------------------------
(* State machine *)

Init ==
    /\ ID \in 0..MaxStartID
    /\ xs = <<>>
    /\ shapes = <<>>
    /\ lights = <<>>
    /\ cam = NoCamera
    /\ canvas = CanvasNew(0, 0)
    /\ pc = "idle"
    /\ py = 0
    /\ px = 0
    /\ ret = NoCall
    /\ obj = NoObject
    /\ sink = ([calls |-> 0, fail_at |-> 0, error |-> "none", out |-> <<>>])
    /\ calls = ([c \in 1..MaxCallers |-> ([t |-> NaN, at |-> "out", shape |-> NoObject, id |-> 0])])

\* let i = Intersection::new(t, shape); xs.push(i)
NewIntersection(t, shape) ==
    /\ pc = "idle"
    /\ ID < MaxID
    /\ Len(xs) < MaxLen
    /\ xs' = Append(xs, IntersectionNew(t, shape, ID))
    /\ ID' = ID + 1
    /\ UNCHANGED <<shapes, lights, cam, canvas, pc, py, px, ret, obj, sink, calls>>

\* mutant of FetchAdd: the counter is read in one step and written back,
\* incremented, in another
FetchAdd_LoadThenStore(c, t, shape) ==
    /\ pc = "idle"
    /\ ID < MaxID
    /\ \/ /\ calls[c].at = "out"
          /\ Len(xs) + Cardinality({d \in 1..MaxCallers : calls[d].at # "out"}) < MaxLen
          /\ calls' = [calls EXCEPT ![c] = [t |-> t, at |-> "loaded", shape |-> shape,
                                            id |-> ID]]
          /\ ID' = ID
       \/ /\ calls[c].at = "loaded"
          /\ calls[c].t = t
          /\ calls[c].shape = shape
          /\ calls' = [calls EXCEPT ![c].at = "fetched"]
          /\ ID' = calls[c].id + 1
    /\ UNCHANGED <<xs, shapes, lights, cam, canvas, pc, py, px, ret, obj, sink>>

\* Caller c enters Intersection::new(t, shape) and performs
\* ID.fetch_add(1, SeqCst): one atomic read-modify-write that returns the
\* counter's previous value.
FetchAdd(c, t, shape) ==
    /\ pc = "idle"
    /\ ID < MaxID
    /\ calls[c].at = "out"
    /\ Len(xs) + Cardinality({d \in 1..MaxCallers : calls[d].at # "out"}) < MaxLen
    /\ calls' = [calls EXCEPT ![c] = [t |-> t, at |-> "fetched", shape |-> shape,
                                      id |-> ID]]
    /\ ID' = ID + 1
    /\ UNCHANGED <<xs, shapes, lights, cam, canvas, pc, py, px, ret, obj, sink>>

\* Intersection::new returns to caller c; xs collects the intersections in
\* the order they are returned
ReturnNew(c) ==
    /\ calls[c].at = "fetched"
    /\ xs' = Append(xs, IntersectionNew(calls[c].t, calls[c].shape, calls[c].id))
    /\ calls' = [calls EXCEPT ![c] = ([t |-> NaN, at |-> "out", shape |-> NoObject, id |-> 0])]
    /\ UNCHANGED <<ID, shapes, lights, cam, canvas, pc, py, px, ret, obj, sink>>

\* a == b, where a is xs[i] or a clone of it and b is xs[j] or a clone of it;
\* #[derive(Clone)] clones every field, and eq is self.id == other.id
CallEq(i, j, clone_a, clone_b) ==
    /\ pc = "idle"
    /\ i \in 1..Len(xs)
    /\ j \in 1..Len(xs)
    /\ \E a \in {IF clone_a
                  THEN [t |-> xs[i].t, shape |-> xs[i].shape, id |-> xs[i].id]
                  ELSE xs[i]},
          b \in {IF clone_b
                  THEN [t |-> xs[j].t, shape |-> xs[j].shape, id |-> xs[j].id]
                  ELSE xs[j]} :
           ret' = [a |-> a, b |-> b, i |-> i, op |-> "eq", j |-> j,
                   res |-> a.id = b.id]
    /\ UNCHANGED <<ID, xs, shapes, lights, cam, canvas, pc, py, px, obj, sink, calls>>

\* xs.hit()
CallHit ==
    /\ pc = "idle"
    /\ ret' = [list |-> xs, op |-> "hit", res |-> Hit(xs)]
    /\ UNCHANGED <<ID, xs, shapes, lights, cam, canvas, pc, py, px, obj, sink, calls>>

\* world.add_shape(Rc::new(shape))
AddShape(shape) ==
    /\ pc = "idle"
    /\ Len(shapes) < MaxShapes
    /\ shapes' = Append(shapes, shape)
    /\ ret' = [op |-> "add_shape"]
    /\ UNCHANGED <<ID, xs, lights, cam, canvas, pc, py, px, obj, sink, calls>>

\* world.add_light(Rc::new(light))
AddLight(light) ==
    /\ pc = "idle"
    /\ Len(lights) < MaxLights
    /\ lights' = Append(lights, light)
    /\ ret' = [op |-> "add_light"]
    /\ UNCHANGED <<ID, xs, shapes, cam, canvas, pc, py, px, obj, sink, calls>>

\* world.intersect(&ray)
CallIntersect(ray) ==
    /\ pc = "idle"
    /\ ID < MaxID
    /\ \E r \in UNION {{[xs |-> sorted.xs, ok |-> sorted.ok, id |-> all.id]
                        : sorted \in SortUnstableByOutcomes(all.xs)}
                      : all \in {AppendFrom(shapes, 1, ray, [xs |-> <<>>, id |-> ID])}} :
           /\ ret' = [shapes |-> shapes, ray |-> ray, id |-> ID, op |-> "intersect",
                      res |-> r]
           /\ ID' = r.id
           /\ pc' = IF r.ok THEN "idle" ELSE "panicked"
    /\ UNCHANGED <<xs, shapes, lights, cam, canvas, py, px, obj, sink, calls>>

\* world.color_at(&ray)
CallColorAt(ray) ==
    /\ pc = "idle"
    /\ ID <= MaxStartID
    /\ \E r \in {ColorAt(shapes, lights, ray, ID)} :
           /\ ret' = [shapes |-> shapes, lights |-> lights, ray |-> ray,
                      id |-> ID, op |-> "color_at", res |-> r]
           /\ ID' = r.id
           /\ pc' = IF r.ok THEN "idle" ELSE "panicked"
    /\ UNCHANGED <<xs, shapes, lights, cam, canvas, py, px, obj, sink, calls>>

\* world.is_shadowed(light_index, point), for a light of the world
CallIsShadowed(light_index, point) ==
    /\ pc = "idle"
    /\ ID <= MaxStartID
    /\ light_index \in 1..Len(lights)
    /\ \E r \in {IsShadowed(shapes, lights, light_index, point, ID)} :
           /\ ret' = [shapes |-> shapes, lights |-> lights, point |-> point,
                      id |-> ID, light_index |-> light_index, op |-> "is_shadowed",
                      res |-> r]
           /\ ID' = r.id
           /\ pc' = IF r.ok THEN "idle" ELSE "panicked"
    /\ UNCHANGED <<xs, shapes, lights, cam, canvas, py, px, obj, sink, calls>>

\* world.shade_hit(light_index, rec); light_index counts from 1 here
CallShadeHit(light_index, rec) ==
    /\ pc = "idle"
    /\ ID <= MaxStartID
    /\ \E r \in {ShadeHit(shapes, lights, light_index, rec, ID)} :
           /\ ret' = [id |-> ID, light_index |-> light_index, rec |-> rec,
                      op |-> "shade_hit", res |-> r]
           /\ ID' = r.id
           /\ pc' = IF r.ok THEN "idle" ELSE "panicked"
    /\ UNCHANGED <<xs, shapes, lights, cam, canvas, py, px, obj, sink, calls>>

\* material.lighting(&light, position, eye, normal, in_shadow)
CallLighting(m, light, position, eye, normal, in_shadow) ==
    /\ pc = "idle"
    /\ ret' = [normal |-> normal, m |-> m, position |-> position, light |-> light,
               eye |-> eye, in_shadow |-> in_shadow, op |-> "lighting",
               res |-> Lighting(m, light, position, eye, normal, in_shadow)]
    /\ UNCHANGED <<ID, xs, shapes, lights, cam, canvas, pc, py, px, obj, sink, calls>>

\* shape.material().lighting(&light, position, eye, normal, in_shadow) for a
\* shape whose material was built with a texture
CallLightingTextured(texture, shininess, shape, light, position, eye, in_shadow) ==
    /\ pc = "idle"
    /\ \E m \in {[color |-> MaterialDefault.color, texture |-> texture,
                  ambient |-> MaterialDefault.ambient,
                  diffuse |-> MaterialDefault.diffuse,
                  specular |-> MaterialDefault.specular, shininess |-> shininess]} :
           ret' = [normal |-> V(0, 0, -1), m |-> m, position |-> position, shape |-> shape,
                   light |-> light, eye |-> eye, in_shadow |-> in_shadow,
                   op |-> "lighting_textured",
                   res |-> Lighting(m, light, position, eye, V(0, 0, -1), in_shadow)]
    /\ UNCHANGED <<ID, xs, shapes, lights, cam, canvas, pc, py, px, obj, sink, calls>>

\* let xs = shape.intersect(&ray)
CallSphereIntersect(shape, ray) ==
    /\ pc = "idle"
    /\ ID < MaxID
    /\ \E r \in {SphereIntersect(shape, ray, ID)} :
           /\ xs' = r.xs
           /\ ID' = r.id
    /\ ret' = [ray |-> ray, op |-> "sphere_intersect"]
    /\ UNCHANGED <<shapes, lights, cam, canvas, pc, py, px, obj, sink, calls>>

\* HitRecord::new(&xs[k], &ray), ray the one that gave xs
CallHitRecord(k) ==
    /\ pc = "idle"
    /\ ret.op \in {"sphere_intersect", "hit_record"}
    /\ k \in 1..Len(xs)
    /\ ret' = [ray |-> ret.ray, intersection |-> xs[k], op |-> "hit_record",
               res |-> HitRecordNew(xs[k], ret.ray)]
    /\ UNCHANGED <<ID, xs, shapes, lights, cam, canvas, pc, py, px, obj, sink, calls>>

\* let camera = Camera::new(cfg)
NewCamera(cfg) ==
    /\ pc = "idle"
    /\ cam = NoCamera
    /\ cam' = CameraNew(cfg)
    /\ ret' = [half_view |-> cfg.half_view, op |-> "camera"]
    /\ UNCHANGED <<ID, xs, shapes, lights, canvas, pc, py, px, obj, sink, calls>>

\* what ret keeps of the passes made over the scene since it was built:
\* their number and the canvas of the first render
Passes == IF ret.op \in {"render", "pixel"} THEN ret.n ELSE 0

\* camera.render(&world) up to its loops: let mut result = Canvas::new(..)
RenderBegin ==
    /\ pc = "idle"
    /\ cam # NoCamera
    /\ Passes < MaxPasses
    /\ canvas' = CanvasNew(cam.hsize, cam.vsize)
    /\ py' = 0
    /\ px' = 0
    /\ pc' = "render"
    /\ ret' = [n |-> Passes + 1, op |-> "render",
               first |-> IF ret.op \in {"render", "pixel"} THEN ret.first ELSE <<>>,
               start |-> [ID |-> ID, xs |-> xs, shapes |-> shapes, lights |-> lights,
                          cam |-> cam],
               writes |-> <<>>, done |-> FALSE]
    /\ UNCHANGED <<ID, xs, shapes, lights, cam, obj, sink, calls>>

\* mutant of RenderPixel: the loops are nested the other way round, the whole
\* column x = 0 first
RenderPixel_ColumnMajor ==
    /\ pc = "render"
    /\ py < cam.vsize
    /\ px < cam.hsize
    /\ \E color \in {ColorAt(shapes, lights, RayForPixel(cam, px, py), ID)} :
           /\ ID' = color.id
           /\ IF color.ok /\ CanvasInRange(canvas, px, py)
              THEN /\ canvas' = CanvasSet(canvas, px, py, color.color)
                   /\ pc' = "render"
              ELSE /\ canvas' = canvas
                   /\ pc' = "panicked"
    /\ ret' = [ret EXCEPT !.writes = Append(@, [x |-> px, y |-> py])]
    /\ py' = IF py + 1 < cam.vsize THEN py + 1 ELSE 0
    /\ px' = IF py + 1 < cam.vsize THEN px ELSE px + 1
    /\ UNCHANGED <<xs, shapes, lights, cam, obj, sink, calls>>

\* one turn of the inner loop of render, and the step to the next pixel
RenderPixel ==
    /\ pc = "render"
    /\ py < cam.vsize
    /\ px < cam.hsize
    /\ \E color \in {ColorAt(shapes, lights, RayForPixel(cam, px, py), ID)} :
           /\ ID' = color.id
           /\ IF color.ok /\ CanvasInRange(canvas, px, py)
              THEN /\ canvas' = CanvasSet(canvas, px, py, color.color)
                   /\ pc' = "render"
              ELSE /\ canvas' = canvas
                   /\ pc' = "panicked"
    /\ ret' = [ret EXCEPT !.writes = Append(@, [x |-> px, y |-> py])]
    /\ px' = IF px + 1 < cam.hsize THEN px + 1 ELSE 0
    /\ py' = IF px + 1 < cam.hsize THEN py ELSE py + 1
    /\ UNCHANGED <<xs, shapes, lights, cam, obj, sink, calls>>

\* the loops of render are over: render returns result
RenderEnd ==
    /\ pc = "render"
    /\ py >= cam.vsize \/ cam.hsize = 0
    /\ pc' = "idle"
    /\ ret' = [ret EXCEPT !.done = TRUE,
                          !.first = IF @ = <<>> THEN <<canvas>> ELSE @]
    /\ UNCHANGED <<ID, xs, shapes, lights, cam, canvas, py, px, obj, sink, calls>>

\* world.color_at(&camera.ray_for_pixel(x, y)): a pass over one pixel, made
\* by a caller in the order of its choice after a render of the scene
CallPixel(x, y) ==
    /\ pc = "idle"
    /\ cam # NoCamera
    /\ (IF ret.op \in {"render", "pixel"} THEN ret.first ELSE <<>>) # <<>>
    /\ Passes < MaxPasses
    /\ x < cam.hsize
    /\ y < cam.vsize
    /\ \E color \in {ColorAt(shapes, lights, RayForPixel(cam, x, y), ID)} :
           /\ ID' = color.id
           /\ pc' = IF color.ok THEN "idle" ELSE "panicked"
           /\ ret' = [n |-> Passes + 1, x |-> x, y |-> y,
                      color |-> color.color, op |-> "pixel",
                      first |-> IF ret.op \in {"render", "pixel"} THEN ret.first ELSE <<>>]
    /\ UNCHANGED <<xs, shapes, lights, cam, canvas, py, px, obj, sink, calls>>

\* the four types that carry a transform, as a caller holds one: `kind` names
\* the type and `value` is the object
NewOf(kind) ==
    [value |-> CASE kind = "Sphere" -> SphereNew
                 [] kind = "Plane" -> [transform |-> Eye, transform_inverse |-> Eye,
                                       material |-> MaterialDefault]
                 [] kind = "Stripe" -> StripeColors(C(1, 1, 1), Black)
                 [] kind = "SolidColor" -> SolidColorNew(C(1, 1, 1)),
     kind |-> kind]

\* o.set_transform(transform), dispatched on the type of o
SetTransformOf(o, transform) ==
    [o EXCEPT !.value = CASE o.kind = "Sphere" -> SetTransform(@, transform)
                          [] o.kind = "Plane" -> PlaneSetTransform(@, transform)
                          [] OTHER -> TextureSetTransform(@, transform)]

\* o.transform_inverse(); SolidColor has one matrix and returns it for
\* transform() and for transform_inverse()
TransformInverseOf(o) ==
    IF o.kind \in {"Sphere", "Plane"} THEN o.value.transform_inverse
    ELSE IF o.value.kind = "SolidColor" THEN o.value.transform
    ELSE o.value.transform_inverse

\* let mut o = Sphere::new() (Plane::new(), Stripe::colors(..), SolidColor::new(..))
NewObject(kind) ==
    /\ obj = NoObject
    /\ obj' = NewOf(kind)
    /\ ret' = [op |-> "set_transform", passed |-> <<>>]
    /\ UNCHANGED <<ID, xs, shapes, lights, cam, canvas, pc, py, px, sink, calls>>

\* o.set_transform(transform); ret.passed lists the matrices passed so far
CallSetTransform(transform) ==
    /\ obj # NoObject
    /\ Len(ret.passed) < MaxCalls
    /\ obj' = SetTransformOf(obj, transform)
    /\ ret' = [ret EXCEPT !.passed = Append(@, transform)]
    /\ UNCHANGED <<ID, xs, shapes, lights, cam, canvas, pc, py, px, sink, calls>>

\* canvas = Canvas::new(width, height)
NewCanvas(width, height) ==
    /\ pc = "idle"
    /\ canvas' = CanvasNew(width, height)
    /\ ret' = [width |-> width, height |-> height, op |-> "canvas_new"]
    /\ UNCHANGED <<ID, xs, shapes, lights, cam, pc, py, px, obj, sink, calls>>

\* canvas[[x, y]] = color; the index panics outside the two Vecs
CallCanvasIndexMut(x, y, color) ==
    /\ pc = "idle"
    /\ \E res \in {CanvasIndexMut(canvas, x, y, color)} :
           /\ canvas' = res.after
           /\ pc' = IF res.ok THEN "idle" ELSE "panicked"
           /\ ret' = [v |-> color, index |-> <<x, y>>, ok |-> res.ok,
                      after |-> res.after, kind |-> "Canvas", op |-> "index_mut", target |-> canvas]
    /\ UNCHANGED <<ID, xs, shapes, lights, cam, py, px, obj, sink, calls>>

\* let value = canvas[[x, y]]
CallCanvasIndex(x, y) ==
    /\ pc = "idle"
    /\ \E res \in {CanvasIndex(canvas, x, y)} :
           /\ pc' = IF res.ok THEN "idle" ELSE "panicked"
           /\ ret' = [index |-> <<x, y>>, ok |-> res.ok, value |-> res.value,
                      kind |-> "Canvas", op |-> "index", target |-> canvas]
    /\ UNCHANGED <<ID, xs, shapes, lights, cam, canvas, py, px, obj, sink, calls>>

\* let value = color[index]
CallColorIndex(color, index) ==
    /\ pc = "idle"
    /\ \E res \in {ColorIndex(color, index)} :
           /\ pc' = IF res.ok THEN "idle" ELSE "panicked"
           /\ ret' = [index |-> <<index>>, ok |-> res.ok, value |-> res.value,
                      kind |-> "Color", op |-> "index", target |-> color]
    /\ UNCHANGED <<ID, xs, shapes, lights, cam, canvas, py, px, obj, sink, calls>>

\* color[index] = v
CallColorIndexMut(color, index, v) ==
    /\ pc = "idle"
    /\ \E res \in {ColorIndexMut(color, index, v)} :
           /\ pc' = IF res.ok THEN "idle" ELSE "panicked"
           /\ ret' = [v |-> v, index |-> <<index>>, ok |-> res.ok,
                      after |-> res.after, kind |-> "Color", op |-> "index_mut", target |-> color]
    /\ UNCHANGED <<ID, xs, shapes, lights, cam, canvas, py, px, obj, sink, calls>>

\* let value = tuple[index]
CallTupleIndex(tuple, index) ==
    /\ pc = "idle"
    /\ \E res \in {TupleIndex(tuple, index)} :
           /\ pc' = IF res.ok THEN "idle" ELSE "panicked"
           /\ ret' = [index |-> <<index>>, ok |-> res.ok, value |-> res.value,
                      kind |-> "Tuple", op |-> "index", target |-> tuple]
    /\ UNCHANGED <<ID, xs, shapes, lights, cam, canvas, py, px, obj, sink, calls>>

\* tuple[index] = v
CallTupleIndexMut(tuple, index, v) ==
    /\ pc = "idle"
    /\ \E res \in {TupleIndexMut(tuple, index, v)} :
           /\ pc' = IF res.ok THEN "idle" ELSE "panicked"
           /\ ret' = [v |-> v, index |-> <<index>>, ok |-> res.ok,
                      after |-> res.after, kind |-> "Tuple", op |-> "index_mut", target |-> tuple]
    /\ UNCHANGED <<ID, xs, shapes, lights, cam, canvas, py, px, obj, sink, calls>>

\* let value = m[[row, col]]
CallMatrixIndex(m, row, col) ==
    /\ pc = "idle"
    /\ \E res \in {MatrixIndex(m, row, col)} :
           /\ pc' = IF res.ok THEN "idle" ELSE "panicked"
           /\ ret' = [index |-> <<row, col>>, ok |-> res.ok, value |-> res.value,
                      kind |-> "Matrix", op |-> "index", target |-> m]
    /\ UNCHANGED <<ID, xs, shapes, lights, cam, canvas, py, px, obj, sink, calls>>

\* m[[row, col]] = v
CallMatrixIndexMut(m, row, col, v) ==
    /\ pc = "idle"
    /\ \E res \in {MatrixIndexMut(m, row, col, v)} :
           /\ pc' = IF res.ok THEN "idle" ELSE "panicked"
           /\ ret' = [v |-> v, index |-> <<row, col>>, ok |-> res.ok,
                      after |-> res.after, kind |-> "Matrix", op |-> "index_mut", target |-> m]
    /\ UNCHANGED <<ID, xs, shapes, lights, cam, canvas, py, px, obj, sink, calls>>

\* let mut file = ...: a sink that never fails (fail_at = 0) or whose
\* fail_at-th write returns Err(error)
NewSink(fail_at, error) ==
    /\ pc = "idle"
    /\ sink' = [calls |-> 0, fail_at |-> fail_at, error |-> error, out |-> <<>>]
    /\ ret' = NoCall
    /\ UNCHANGED <<ID, xs, shapes, lights, cam, canvas, pc, py, px, obj, calls>>

\* let result = canvas.to_ppm(&mut file), on a sink not yet written to
CallToPpm ==
    /\ pc = "idle"
    /\ sink.calls = 0
    /\ \E res \in {ToPpm(canvas, sink)} :
           /\ sink' = res.sink
           /\ ret' = [canvas |-> canvas, sink |-> sink, ok |-> res.ok,
                      error |-> res.error, op |-> "to_ppm"]
    /\ UNCHANGED <<ID, xs, shapes, lights, cam, canvas, pc, py, px, obj, calls>>

\* let text = format!("{}", color)
CallDisplay(color) ==
    /\ pc = "idle"
    /\ ret' = [color |-> color, text |-> ColorDisplay(color), op |-> "display"]
    /\ UNCHANGED <<ID, xs, shapes, lights, cam, canvas, pc, py, px, obj, sink, calls>>

\* let color = texture.color_at(point), for a Stripe
CallStripeColorAt(texture, point) ==
    /\ pc = "idle"
    /\ ret' = [texture |-> texture, point |-> point, op |-> "stripe_color_at",
               res |-> TextureColorAt(texture, point)]
    /\ UNCHANGED <<ID, xs, shapes, lights, cam, canvas, pc, py, px, obj, sink, calls>>

\* let color = texture.color_at_shape(point, &shape)
CallColorAtShape(texture, point, shape) ==
    /\ pc = "idle"
    /\ ret' = [texture |-> texture, point |-> point, shape |-> shape,
               op |-> "color_at_shape", res |-> ColorAtShape(texture, point, shape)]
    /\ UNCHANGED <<ID, xs, shapes, lights, cam, canvas, pc, py, px, obj, sink, calls>>

\* let xs = shape.local_intersect(&ray)
CallLocalIntersect(kind, shape, ray) ==
    /\ pc = "idle"
    /\ ID <= MaxStartID
    /\ \E r \in {LocalIntersectOf(kind, shape, ray, ID)} :
           /\ xs' = r.xs
           /\ ID' = r.id
    /\ ret' = [ray |-> ray, kind |-> kind, shape |-> shape, op |-> "local_intersect"]
    /\ UNCHANGED <<shapes, lights, cam, canvas, pc, py, px, obj, sink, calls>>

\* let xs = shape.intersect(&ray)
CallShapeIntersect(kind, shape, ray) ==
    /\ pc = "idle"
    /\ ID <= MaxStartID
    /\ \E r \in {ShapeIntersect(kind, shape, ray, ID)} :
           /\ xs' = r.xs
           /\ ID' = r.id
    /\ ret' = [ray |-> ray, kind |-> kind, shape |-> shape, op |-> "intersect"]
    /\ UNCHANGED <<shapes, lights, cam, canvas, pc, py, px, obj, sink, calls>>

\* let inverse = m.inverse(); &inverse * (&m * point); &inverse * &m
CallInverse(m, point) ==
    /\ pc = "idle"
    /\ \E inverse \in {Inverse(m)} :
           ret' = [m |-> m, point |-> point, op |-> "inverse", inverse |-> inverse,
                   back |-> MatVec(inverse, MatVec(m, point)),
                   product |-> MatMul(inverse, m)]
    /\ UNCHANGED <<ID, xs, shapes, lights, cam, canvas, pc, py, px, obj, sink, calls>>

\* the callers of the model add a shape or a light to a world once
Range(list) == {list[k] : k \in 1..Len(list)}

NewLights == {LightFront, LightBack} \ Range(lights)

\* callers of Intersection::new and Hit::hit; the distances are on both sides
\* of 0
SpecHit ==
    Init /\ [][\/ \E t \in {I(-1), I(0), I(1), I(2)}, s \in {SphereA, SphereB} :
                      NewIntersection(t, s)
               \/ CallHit]_vars

SpecIntersect ==
    Init /\ [][\/ \E s \in {SphereA, SphereB, SphereC} \ Range(shapes) : AddShape(s)
               \/ \E r \in AxisRays : CallIntersect(r)]_vars

SpecColorAt ==
    Init /\ [][\/ \E s \in {SphereA, SphereB, SphereC} \ Range(shapes) : AddShape(s)
               \/ \E l \in NewLights : AddLight(l)
               \/ \E r \in AxisRays : CallColorAt(r)]_vars

\* the third sphere's surface passes through LightFront; the last two points lie on
\* the surface of SphereA
SpecShadow ==
    Init /\ [][\/ \E s \in {SphereA, SphereC,
                            SetTransform(SphereNew, Translation(I(0), I(0), I(-11)))}
                           \ Range(shapes) : AddShape(s)
               \/ \E l \in NewLights : AddLight(l)
               \/ \E k \in 1..MaxLights,
                     p \in {P(0, 0, 5), P(0, 0, -5), P(0, 0, -20), P(0, 0, 12),
                            P(0, 0, 1), P(0, 0, -1)} :
                      CallIsShadowed(k, p)]_vars

\* the arguments of the lighting tests (material.rs:70-152): the surface at
\* the origin facing -z or +z, lights at distance 10 whose direction is
\* rational, eyes of unit length, and materials of a shininess small enough
\* for the power to fit the integers of the model
SpecLighting ==
    Init /\ [][\E m \in {MaterialNew(C(1, 1, 1), Norm(1, 10), Norm(9, 10),
                                     Norm(9, 10), I(1)),
                         MaterialNew(ColorNew(Norm(8, 10), I(1), Norm(6, 10)),
                                     Norm(1, 10), Norm(7, 10), Norm(2, 10), I(2)),
                         MaterialNew(ColorNew(I(1), Norm(1, 2), I(0)),
                                     Norm(2, 10), Norm(5, 10), I(1), I(3))},
                  light \in {PointLightNew(P(0, 0, -10), C(1, 1, 1)),
                             PointLightNew(P(0, 0, 10), C(1, 1, 1)),
                             PointLightNew(P(0, 6, -8), C(1, 1, 1)),
                             PointLightNew(P(0, -6, -8),
                                           ColorNew(I(1), Norm(1, 2), I(0)))},
                  eye \in {V(0, 0, -1), V(0, 0, 1),
                           Vector(I(0), Norm(3, 5), Norm(-4, 5)),
                           Vector(I(0), Norm(-3, 5), Norm(-4, 5))},
                  normal \in {V(0, 0, -1), V(0, 0, 1)}, in_shadow \in BOOLEAN :
                   CallLighting(m, light, P(0, 0, 0), eye, normal, in_shadow)]_vars

\* textures and shapes of the textured materials: the solid colour of
\* test_world (camera.rs:181), the stripes of the tests of stripe.rs, a
\* stripe with a transform, and a shape whose inverse doubles x; offset is
\* from the shaded point to the light
SpecTextured ==
    Init /\ [][\E texture \in {SolidColorNew(ColorNew(Norm(8, 10), I(1), Norm(6, 10))),
                               StripeColors(C(1, 1, 1), C(0, 0, 0)),
                               TextureSetTransform(StripeColors(C(1, 0, 0), C(0, 0, 1)),
                                                   Scaling(Norm(1, 2), I(1), I(1)))},
                  shape \in {SphereNew, SphereB},
                  position \in {P(0, 0, 0), P(1, 0, 0), Point(Norm(-1, 2), I(0), I(0))},
                  offset \in {V(0, 0, -10), V(0, 6, -8)},
                  eye \in {V(0, 0, -1), Vector(I(0), Norm(-3, 5), Norm(-4, 5))},
                  in_shadow \in BOOLEAN :
                   CallLightingTextured(texture, I(2), shape,
                                        PointLightNew(TAdd(position, offset), C(1, 1, 1)),
                                        position, eye, in_shadow)]_vars

\* the rays given to Sphere::intersect and HitRecord::new: those along the
\* axis, one that is not of unit length and one from behind the spheres
SpecRecord ==
    Init /\ [][\/ \E s \in {SphereA, SphereB, SphereC,
                            SetTransform(SphereNew, Translation(I(0), I(0), I(-11)))},
                     r \in AxisRays \cup {RayNew(P(0, 0, -5), V(0, 0, 2)),
                                          RayNew(P(0, 0, 20), V(0, 0, -1))} :
                      CallSphereIntersect(s, r)
               \/ \E k \in 1..2 : CallHitRecord(k)]_vars

\* a caller builds the world, then the camera, then renders
SpecRender ==
    Init /\ [][\/ \E s \in {SphereA, SphereB} \ Range(shapes) :
                      cam = NoCamera /\ AddShape(s)
               \/ \E l \in {LightFront, LightBack} \ Range(lights) :
                      cam = NoCamera /\ AddLight(l)
               \/ \E cfg \in {RenderConfig(1, 1, I(1)), RenderConfig(3, 1, I(2)),
                              RenderConfig(1, 3, I(2)), RenderConfig(2, 2, I(4))} :
                      NewCamera(cfg)
               \/ RenderBegin
               \/ RenderPixel
               \/ RenderEnd
               \/ \E x \in 0..2, y \in 0..2 : CallPixel(x, y)]_vars

\* callers of set_transform on the shapes and textures, with invertible
\* transforms
SpecTransform ==
    Init /\ [][\/ \E kind \in {"Sphere", "Plane", "Stripe", "SolidColor"} :
                      NewObject(kind)
               \/ \E transform \in {Eye, Translation(I(1), I(2), I(3)),
                                    Scaling(I(2), I(2), I(2)),
                                    Scaling(Norm(1, 2), I(1), I(-1)),
                                    Translation(I(0), I(0), I(-5)),
                                    Shearing(I(1), I(0), I(0), I(0), I(0), I(0))} :
                      CallSetTransform(transform)]_vars

\* callers of Canvas::new and of canvas[[x, y]] = color (canvas.rs, module
\* example)
SpecCanvas ==
    Init /\ [][\/ \E width \in 0..MaxSide, height \in 0..MaxSide :
                      NewCanvas(width, height)
               \/ \E x \in 0..MaxSide, y \in 0..MaxSide,
                     color \in {ColorNew(Norm(3, 2), I(0), I(0)),
                                ColorNew(I(0), Norm(1, 2), I(0)),
                                ColorNew(Norm(-1, 2), I(0), I(1))} :
                      CallCanvasIndexMut(x, y, color)]_vars

\* objects that are indexed: canvases of three sizes, a colour, a point and
\* two matrices whose entries tell the places apart
SpecIndex ==
    Init /\ [][\/ \E size \in {<<2, 1>>, <<1, 2>>, <<0, 0>>} : NewCanvas(size[1], size[2])
               \/ \E x \in 0..MaxSide, y \in 0..MaxSide : CallCanvasIndex(x, y)
               \/ \E x \in 0..MaxSide, y \in 0..MaxSide :
                      CallCanvasIndexMut(x, y, ColorNew(I(1), Norm(21, 5), Norm(-37, 10)))
               \/ \E index \in 0..MaxIndex :
                      CallColorIndex(ColorNew(I(1), Norm(21, 5), Norm(-37, 10)), index)
               \/ \E index \in 0..MaxIndex :
                      CallColorIndexMut(ColorNew(I(1), Norm(21, 5), Norm(-37, 10)),
                                        index, I(9))
               \/ \E index \in 0..MaxIndex :
                      CallTupleIndex(Point(I(1), Norm(21, 5), Norm(-37, 10)), index)
               \/ \E index \in 0..MaxIndex :
                      CallTupleIndexMut(Point(I(1), Norm(21, 5), Norm(-37, 10)),
                                        index, I(9))
               \/ \E m \in {MatrixNew([i \in 1..16 |-> I(i)]),
                            Translation(I(5), I(6), I(7))},
                     row \in 0..MaxIndex, col \in 0..MaxIndex :
                      \/ CallMatrixIndex(m, row, col)
                      \/ CallMatrixIndexMut(m, row, col, I(9))]_vars

\* canvases that are serialized, and sinks that fail at one of their writes
\* with an error of std::io
SpecPpm ==
    Init /\ [][\/ /\ sink.calls = 0
                  /\ \E size \in {<<0, 0>>, <<1, 0>>, <<2, 1>>, <<1, 2>>, <<2, 2>>} :
                         NewCanvas(size[1], size[2])
               \/ /\ sink.calls = 0
                  /\ \E x \in 0..1, y \in 0..1,
                        color \in {ColorNew(Norm(3, 2), I(0), I(0)),
                                   ColorNew(Norm(-1, 2), Norm(1, 2), I(1))} :
                         CallCanvasIndexMut(x, y, color)
               \/ /\ sink = ([calls |-> 0, fail_at |-> 0, error |-> "none", out |-> <<>>])
                  /\ \E fail_at \in 1..MaxFailAt, error \in {"BrokenPipe", "WriteZero"} :
                         NewSink(fail_at, error)
               \/ CallToPpm]_vars

\* channel values that are formatted
SpecDisplay ==
    Init /\ [][\E r \in {I(-1), Norm(-1, 512), I(0), Norm(1, 512), Norm(1, 2),
                         Norm(255, 256), Norm(511, 512), I(1), Norm(3, 2),
                         <<1, 0>>, <<-1, 0>>, NaN},
                  g \in {I(-1), Norm(-1, 512), I(0), Norm(1, 512), Norm(1, 2),
                         Norm(255, 256), Norm(511, 512), I(1), Norm(3, 2),
                         <<1, 0>>, <<-1, 0>>, NaN},
                  b \in {I(0), Norm(1, 2)} :
                   CallDisplay(ColorNew(r, g, b))]_vars

\* rays and points that give a NaN t: Sphere::intersect divides by the squared
\* length of the direction, and is_shadowed normalizes light - point
SpecNaN ==
    Init /\ [][\/ /\ shapes = <<>>
                  /\ \E t \in {I(-1), I(1), I(2), NaN}, s \in {SphereA} :
                         NewIntersection(t, s)
               \/ CallHit
               \/ xs = <<>> /\ \E s \in {SphereA, SphereC} \ Range(shapes) : AddShape(s)
               \/ xs = <<>> /\ \E l \in NewLights : AddLight(l)
               \/ /\ xs = <<>>
                  /\ \E r \in {RayNew(P(0, 0, -5), V(0, 0, 0)),    \* no direction
                               RayNew(P(0, 0, 0), V(0, 0, 0)),     \* from inside SphereA
                               RayNew(P(0, 0, -5), V(0, 0, 1)),
                               RayNew(P(0, 0, -5), V(0, 1, 0))} :
                         CallIntersect(r) \/ CallColorAt(r)
               \/ /\ xs = <<>>
                  /\ \E k \in 1..MaxLights,
                        p \in {LightFront.position, LightBack.position,
                               P(0, 0, 5), P(0, 0, -5)} :
                         CallIsShadowed(k, p)]_vars

\* the stripes of tests::color_at_alternating_x and their exchange; x of the
\* points: the values of that test, halves on both sides of 0, and whole
\* numbers at and beyond the ends of i32 (2^31 - 1, -2^31, 2^31, 2^32, -2^32)
SpecStripe ==
    Init /\ [][\E texture \in {StripeColors(C(1, 1, 1), Black),
                               StripeColors(Black, C(1, 1, 1))},
                  x \in {I(0), Norm(9, 10), I(1), Norm(-1, 10), I(-1), Norm(-11, 10),
                         Norm(-1, 2), Norm(-3, 2), I(-2), Norm(5, 2), I(2), I(3),
                         I(2147483647), Huge(-32768), Huge(32768), Huge(65536),
                         Huge(-65536)},
                  y \in {I(0), I(1), I(2)}, z \in {I(0), I(1), I(2)} :
                   CallStripeColorAt(texture, Point(x, y, z))]_vars

\* stripes of solid colours and stripes of stripes
SpecNested ==
    Init /\ [][\E texture \in {StripeColors(C(1, 1, 1), Black),
                               StripeColors(Black, C(1, 1, 1))}
                          \cup {StripeNew(TextureSetTransform(StripeColors(C(1, 1, 1), Black),
                                                              Shearing(I(1), I(0), I(0), I(0), I(0), I(0))),
                                          SolidColorNew(C(1, 0, 0))),
                                StripeNew(SolidColorNew(C(1, 0, 0)),
                                          TextureSetTransform(StripeColors(C(1, 1, 1), Black),
                                                              Translation(Norm(1, 2), I(0), I(0)))),
                                StripeNew(StripeColors(C(1, 1, 1), Black), SolidColorNew(C(1, 0, 0)))},
                  x \in {I(0), Norm(1, 2), I(1), Norm(3, 2), Norm(-1, 2), I(-1),
                         I(2), Norm(5, 2)},
                  y \in {I(0), I(1), I(2)}, z \in {I(0), I(1), I(2)} :
                   CallStripeColorAt(texture, Point(x, y, z))]_vars

\* the transforms of tests::color_at_shape_with_* on the textures and shapes
\* of the repository
SpecColorAtShape ==
    Init /\ [][\E texture \in
                      {StripeColors(C(1, 1, 1), Black),
                       TextureSetTransform(StripeColors(C(1, 1, 1), Black),
                                           Scaling(I(2), I(2), I(2))),
                       TextureSetTransform(StripeColors(C(1, 1, 1), Black),
                                           Translation(Norm(1, 2), I(1), Norm(3, 2))),
                       TextureSetTransform(SolidColorNew(C(1, 0, 0)),
                                           Scaling(I(2), I(2), I(2)))}
                          \cup {StripeNew(TextureSetTransform(StripeColors(C(1, 1, 1), Black),
                                                              Shearing(I(1), I(0), I(0), I(0), I(0), I(0))),
                                          SolidColorNew(C(1, 0, 0))),
                                StripeNew(SolidColorNew(C(1, 0, 0)),
                                          TextureSetTransform(StripeColors(C(1, 1, 1), Black),
                                                              Translation(Norm(1, 2), I(0), I(0)))),
                                StripeNew(StripeColors(C(1, 1, 1), Black), SolidColorNew(C(1, 0, 0)))},
                  point \in {Point(I(2), I(3), I(4)), Point(Norm(5, 2), I(3), Norm(7, 2)),
                             P(0, 0, 0), P(1, 0, 0), P(3, 1, 0),
                             Point(Norm(-1, 2), I(0), I(0)), P(-1, 2, 0)},
                  shape \in {SphereNew, SetTransform(SphereNew, Scaling(I(2), I(2), I(2))),
                             SetTransform(SphereNew, Translation(I(1), I(0), I(0))),
                             PlaneSetTransform([transform |-> Eye,
                                                transform_inverse |-> Eye,
                                                material |-> MaterialDefault],
                                               Scaling(Norm(1, 2), I(1), I(1)))} :
                   CallColorAtShape(texture, point, shape)]_vars

\* callers of local_intersect and intersect on spheres and planes: rays that
\* hit twice, touch, miss, start inside and leave the shape behind, of unit
\* length and not, one without direction; for the plane, rays whose
\* direction.y lies on both sides of EPS
SpecShape ==
    Init /\ [][\/ \E ray \in {RayNew(P(0, 0, -5), V(0, 0, 1)), RayNew(P(0, 1, -5), V(0, 0, 1)),
                              RayNew(P(0, 2, -5), V(0, 0, 1)), RayNew(P(0, 0, 0), V(0, 0, 1)),
                              RayNew(P(0, 0, 5), V(0, 0, 1)), RayNew(P(0, 0, -5), V(0, 0, 2)),
                              RayNew(P(0, -3, -4), V(0, 3, 4)), RayNew(P(1, 0, 0), V(0, 1, 0)),
                              RayNew(Point(I(0), Norm(1, 2), I(0)), V(0, -1, 0)),
                              RayNew(P(0, 0, -1), V(0, 0, -1)),
                              RayNew(P(0, 0, -5), V(0, 0, 0))} :
                      CallLocalIntersect("Sphere", SphereNew, ray)
               \/ \E oy \in {I(10), I(1), I(0), I(-1)},
                     dy \in {I(0), I(1), I(-1), I(2), Norm(-1, 2), Norm(1, 1000000),
                             Norm(1, 2000000), Norm(-1, 2000000), Norm(-1, 1000000)} :
                      CallLocalIntersect("Plane",
                                         [transform |-> Eye, transform_inverse |-> Eye,
                                          material |-> MaterialDefault],
                                         RayNew(Point(I(0), oy, I(0)), Vector(I(0), dy, I(1))))
               \/ \E kind \in {"Sphere", "Plane"},
                     transform \in {Eye, Scaling(I(2), I(2), I(2)),
                                    Translation(I(5), I(0), I(0)),
                                    Translation(I(0), I(0), I(1)),
                                    Translation(I(0), I(-1), I(0))},
                     ray \in {RayNew(P(0, 0, -5), V(0, 0, 1)), RayNew(P(0, 3, 0), V(0, -1, 0)),
                              RayNew(P(0, 0, -5), V(0, 0, 2)), RayNew(P(0, -3, 0), V(0, 2, 0))} :
                      CallShapeIntersect(kind, SetTransformOf(NewOf(kind), transform).value,
                                         ray)]_vars

\* callers of Matrix::inverse on the matrices of the constructors and on
\* their products: the identity, a translation, scalings, rotations by angles
\* of rational sine and cosine, shearings (the last one is singular) and view
\* transforms
SpecInverse ==
    Init /\ [][/\ ret = NoCall
               /\ \E a, b \in
                         {Eye, Translation(I(1), I(2), I(3)), Scaling(I(2), I(3), I(4)),
                          Scaling(Norm(1, 2), I(-1), I(2)),
                          RotationX([cos |-> Norm(3, 5), sin |-> Norm(4, 5)]),
                          RotationX([cos |-> Norm(-4, 5), sin |-> Norm(3, 5)]),
                          RotationX([cos |-> I(0), sin |-> I(1)]),
                          Shearing(I(1), I(0), I(0), I(0), I(0), I(0)),
                          Shearing(I(1), I(2), I(3), I(4), I(5), I(6)),
                          Shearing(I(1), I(0), I(1), I(0), I(0), I(0)),
                          ViewTransform(P(0, 0, -5), P(0, 0, 0), V(0, 1, 0)),
                          ViewTransform(P(0, 0, 8), P(0, 3, 4), V(0, 1, 0))},
                     point \in {P(0, 0, 0), P(1, 2, 3),
                                Point(Norm(-1, 2), I(4), Norm(7, 3))} :
                      CallInverse(MatMul(a, b), point)]_vars

\* callers of Camera::new: images of every shape, the empty ones among them,
\* and fields of view on both sides of a right angle
SpecCamera ==
    Init /\ [][\E hsize \in {0, 1, 2, 3, 5}, vsize \in {0, 1, 2, 3, 5},
                  half_view \in {I(1), Norm(1, 2), I(2), Norm(5, 3)} :
                   NewCamera(RenderConfig(hsize, vsize, half_view))]_vars

\* Worlds for ties: a row of n default spheres three apart along z, and
\* SphereA, which lies where the first sphere of the row lies, added after
\* it (once, twice) or before it.  Ten spheres give 20 intersections, eleven
\* give 22.
InitTies ==
    /\ shapes \in
         UNION {{row \o <<SphereA>>, row \o <<SphereA, SphereA>>, <<SphereA>> \o row, row}
               : row \in {[k \in 1..n |-> SetTransform(SphereNew, Translation(I(0), I(0), I(3 * (k - 1))))]
                          : n \in {1, 9, 10, 11}}}
    /\ ID \in 0..MaxStartID
    /\ xs = <<>> /\ lights = <<>> /\ cam = NoCamera /\ canvas = CanvasNew(0, 0)
    /\ pc = "idle" /\ py = 0 /\ px = 0
    /\ ret = NoCall /\ obj = NoObject
    /\ sink = [calls |-> 0, fail_at |-> 0, error |-> "none", out |-> <<>>]
    /\ calls = [c \in 1..MaxCallers |->
                    [t |-> NaN, at |-> "out", shape |-> NoObject, id |-> 0]]

SpecTies == InitTies /\ [][\E r \in AxisRays : CallIntersect(r)]_vars

\* Worlds for shade_hit: SphereA, SphereC between the origin and LightBack,
\* and a sphere moved by EPS / 2 towards LightFront, whose surface there lies
\* between a point on SphereA and its over_point.  The records are those of a ray
\* along z that meets a shape of the world at t.
SpecShadeHit ==
    Init /\ [][\/ \E s \in {SphereA, SphereC,
                            SetTransform(SphereNew,
                                         Translation(I(0), I(0),
                                                     RNeg(RDiv(EPS, I(2)))))}
                           \ Range(shapes) : AddShape(s)
               \/ \E l \in NewLights : AddLight(l)
               \/ \E k \in 1..MaxLights, s \in Range(shapes),
                     r \in {RayNew(P(0, 0, -5), V(0, 0, 1)),
                            RayNew(P(0, 0, 5), V(0, 0, -1)),
                            RayNew(P(0, 0, 0), V(0, 0, 1))},
                     t \in {I(1), I(4)} :
                      CallShadeHit(k, HitRecordNew(IntersectionNew(t, s, ID), r))]_vars

\* Callers that construct intersections at the same time, and comparisons of
\* the intersections constructed and of their clones.
SpecIdentity ==
    Init /\ [][\/ \E c \in 1..MaxCallers, t \in {I(1), I(2)}, s \in {SphereA} :
                      FetchAdd(c, t, s)
               \/ \E c \in 1..MaxCallers : ReturnNew(c)
               \/ \E i, j \in 1..MaxLen, clone_a, clone_b \in BOOLEAN :
                      CallEq(i, j, clone_a, clone_b)]_vars

----------------------------------------------------------------------------
(* Claims *)

SortedByT(list) ==
    \A i \in 1..Len(list) : \A j \in i..Len(list) : RLe(list[i].t, list[j].t)

\* C1: on a list sorted by non-decreasing t, hit() returns the first element
\* whose t > 0, which has the smallest strictly positive t of the list; it
\* returns None exactly when every t <= 0; an element with t <= 0 is never
\* returned.
C1_HitIsFirstPositive ==
    ret.op = "hit" /\ SortedByT(ret.list) =>
        LET l == ret.list
            h == ret.res
        IN  /\ h \in 0..Len(l)
            /\ (h = 0) <=> (\A k \in 1..Len(l) : RLe(l[k].t, I(0)))
            /\ h # 0 =>
                /\ RGt(l[h].t, I(0))
                /\ \A k \in 1..(h - 1) : RLe(l[k].t, I(0))
                /\ \A k \in 1..Len(l) : RGt(l[k].t, I(0)) => RLe(l[h].t, l[k].t)

\* a sorted list with a negative t, a zero t and a positive t, whose hit is
\* the third element
C1_Witness ==
    /\ ret.op = "hit"
    /\ SortedByT(ret.list)
    /\ Len(ret.list) = 3
    /\ ret.list[1].t = I(-1)
    /\ ret.list[2].t = I(0)
    /\ ret.res = 3



\* the (shape position, position) pairs of the intersections with distance t
\* and shape s that the shapes of ss give one by one for ray
Produced(ss, ray, t, s) ==
    {kj \in (1..Len(ss)) \X (1..2) :
        LET one == SphereIntersect(ss[kj[1]], ray, 0).xs
        IN  /\ kj[2] <= Len(one)
            /\ one[kj[2]].t = t
            /\ one[kj[2]].shape = s}

\* C2: World::intersect returns exactly the intersections shape.intersect
\* gives for every shape of the world, none dropped and none duplicated (at
\* most two per shape), ordered by non-decreasing t.
C2_IntersectIsSortedUnion ==
    ret.op = "intersect" =>
        LET out == ret.res.xs
            ss == ret.shapes
            each == [k \in 1..Len(ss) |-> SphereIntersect(ss[k], ret.ray, 0).xs]
        IN  /\ ret.res.ok
            /\ SortedByT(out)
            /\ Len(out) <= 2 * Len(ss)
            /\ Len(out) = Cardinality({kj \in (1..Len(ss)) \X (1..2) : kj[2] <= Len(each[kj[1]])})
            /\ \A i \in 1..Len(out) :
                 Cardinality({j \in 1..Len(out) : out[j].t = out[i].t /\ out[j].shape = out[i].shape})
                     = Cardinality(Produced(ss, ret.ray, out[i].t, out[i].shape))
            /\ \A i \in 1..Len(out) : \A j \in 1..Len(out) : out[i].id = out[j].id => i = j

\* two shapes hit from inside: four intersections, the negative ones first,
\* in another order than the shapes gave them
C2_Witness ==
    /\ ret.op = "intersect"
    /\ Len(ret.shapes) = 2
    /\ Len(ret.res.xs) = 4
    /\ RLt(ret.res.xs[2].t, I(0))
    /\ ret.res.xs[1].shape # ret.res.xs[2].shape
    /\ ret.res.xs[2].shape = ret.res.xs[3].shape

\* the intersections (t and shape) with t > 0 that the shapes of ss give for
\* ray, one by one
PositiveHits(ss, ray) ==
    {[t |-> x.t, shape |-> x.shape] :
        x \in {i \in UNION {Range(SphereIntersect(ss[k], ray, 0).xs) : k \in 1..Len(ss)} :
                  RGt(i.t, I(0))}}

\* the positive intersection of least t
FirstHit(ss, ray) ==
    LET Least(hits) == CHOOSE i \in hits : \A j \in hits : RLe(i.t, j.t)
    IN  Only({Least(hits) : hits \in {PositiveHits(ss, ray)}})

\* the sum over the lights k..Len(ls) of shade_hit(light, rec)
RECURSIVE SumOfShades(_, _, _, _)
SumOfShades(ss, ls, rec, k) ==
    IF k > Len(ls) THEN Black
    ELSE CAdd(ShadeHit(ss, ls, k, rec, 0).color, SumOfShades(ss, ls, rec, k + 1))

\* C3: World::color_at returns black, without an error, when the ray has no
\* intersection with t > 0 (an empty world included); otherwise it returns
\* the sum over every light of the world of shade_hit(light, record), the
\* record built from the intersection with the least positive t; with a hit
\* and no light that sum is black.
C3_ColorAtIsSumOfShades ==
    ret.op = "color_at" =>
        /\ ret.res.ok
        /\ IF PositiveHits(ret.shapes, ret.ray) = {}
           THEN ret.res.color = Black
           ELSE /\ ret.res.color =
                      SumOfShades(ret.shapes, ret.lights,
                                  HitRecordNew(FirstHit(ret.shapes, ret.ray), ret.ray), 1)
                /\ ret.lights = <<>> => ret.res.color = Black

\* a hit lit by two lights, each of which adds more than nothing
C3_Witness ==
    /\ ret.op = "color_at"
    /\ PositiveHits(ret.shapes, ret.ray) # {}
    /\ Len(ret.lights) = 2
    /\ ret.lights[1] # ret.lights[2]
    /\ \A k \in 1..2 :
         ret.res.color #
             ShadeHit(ret.shapes, ret.lights, k,
                      HitRecordNew(FirstHit(ret.shapes, ret.ray), ret.ray), 0).color

\* the t values at which the shapes ss meet the ray from point to light
OccluderTs(ss, light, point) ==
    Only({
      {i.t : i \in UNION {Range(SphereIntersect(ss[k], ray, 0).xs) : k \in 1..Len(ss)}}
    : ray \in {RayNew(point, Normalized(TSub(light.position, point)))}})

\* C4: World::is_shadowed(light_index, point) is true exactly when some shape
\* of the world meets the ray from point towards the light at a t with
\* 0 < t < d, d the distance from point to the light: an occluder beyond the
\* light (t >= d) or behind the point (t <= 0) does not shadow, and an empty
\* line of sight gives false.
C4_ShadowedIffOccluderBetween ==
    ret.op = "is_shadowed" =>
        /\ ret.res.ok
        /\ ret.res.val <=>
              \E t \in OccluderTs(ret.shapes, ret.lights[ret.light_index], ret.point) :
                  /\ RGt(t, I(0))
                  /\ RLt(t, TNorm(TSub(ret.lights[ret.light_index].position, ret.point)))

\* a point that one shape shadows while another shape lies beyond the light
C4_Witness ==
    /\ ret.op = "is_shadowed"
    /\ ret.res.val
    /\ \E t \in OccluderTs(ret.shapes, ret.lights[ret.light_index], ret.point) :
           RGe(t, TNorm(TSub(ret.lights[ret.light_index].position, ret.point)))

\* the terms of the Phong model for the call recorded in ret
Effective == CMul(ret.m.color, ret.light.color)

LightVector == Normalized(TSub(ret.light.position, ret.position))

LightDotNormal == Dot(LightVector, ret.normal)

ReflectDotEye == Dot(Reflect(TNeg(LightVector), ret.normal), ret.eye)

Ambient == CScale(Effective, ret.m.ambient)

Diffuse == CScale(CScale(Effective, ret.m.diffuse), LightDotNormal)

Specular ==
    CScale(CScale(ret.light.color, ret.m.specular),
           RPow(ReflectDotEye, ret.m.shininess[1]))

\* C5: Material::lighting returns the ambient term alone when in_shadow is
\* true or light_vector . normal < 0, ambient + diffuse when
\* reflect_vector . eye <= 0, and ambient + diffuse + specular otherwise; the
\* shadow flag never changes the ambient term.
C5_LightingIsPhong ==
    ret.op = "lighting" =>
        ret.res = IF ret.in_shadow \/ RLt(LightDotNormal, I(0)) THEN Ambient
                  ELSE IF RLe(ReflectDotEye, I(0)) THEN CAdd(Ambient, Diffuse)
                  ELSE CAdd(CAdd(Ambient, Diffuse), Specular)

\* a lit call with a specular highlight off the mirror direction
C5_Witness ==
    /\ ret.op = "lighting"
    /\ ~ret.in_shadow
    /\ RGt(LightDotNormal, I(0))
    /\ RGt(ReflectDotEye, I(0))
    /\ RLt(ReflectDotEye, I(1))
    /\ Specular # Black
    /\ ret.res # CAdd(Ambient, Diffuse)

\* C6: Material::lighting takes the surface colour from the material's
\* texture at the shaded point, through the inverses of the texture and of
\* the shape: the colour returned is the one lighting gives for a material
\* whose colour is color_at_shape(point, shape) of the texture, so a striped
\* material shades stripes of different parity with different base colours
\* and a solid one with the colour of its texture.
C6_LightingUsesTexture ==
    ret.op = "lighting_textured" =>
        ret.res = Lighting([ret.m EXCEPT
                               !.color = ColorAtShape(ret.m.texture, ret.position, ret.shape)],
                           ret.light, ret.position, ret.eye, ret.normal, ret.in_shadow)

\* shape.normal_at(ray.at(t)) for the call recorded in ret
ComputedNormal == SphereNormalAt(ret.intersection.shape, RayAt(ret.ray, ret.intersection.t))

\* C7: HitRecord::new(intersection, ray) sets inside exactly when
\* shape.normal_at(ray.at(t)) . (-ray.direction) < 0 and then stores the
\* negated normal, otherwise the normal as computed; so normal . eye >= 0,
\* t is the intersection's t, point = ray.at(t) and eye = -ray.direction.
C7_HitRecordFlipsInside ==
    ret.op = "hit_record" =>
        /\ ret.res.inside <=> RLt(Dot(ComputedNormal, TNeg(ret.ray.direction)), I(0))
        /\ ret.res.normal = IF ret.res.inside THEN TNeg(ComputedNormal) ELSE ComputedNormal
        /\ RGe(Dot(ret.res.normal, ret.res.eye), I(0))
        /\ ret.res.t = ret.intersection.t
        /\ ret.res.point = RayAt(ret.ray, ret.intersection.t)
        /\ ret.res.eye = TNeg(ret.ray.direction)

\* a record of a ray that leaves the sphere from inside
C7_Witness ==
    /\ ret.op = "hit_record"
    /\ ret.res.inside
    /\ RGt(ret.res.t, I(0))
    /\ ret.res.normal = TNeg(ComputedNormal)

\* the pixels of the camera's image
ImagePixels == {[x |-> x, y |-> y] : x \in 0..(cam.hsize - 1), y \in 0..(cam.vsize - 1)}

\* what holds of a render at each of its steps
RenderSoFar ==
    ret.op = "render" =>
        /\ pc # "panicked"
        /\ CanvasWidth(canvas) = cam.hsize
        /\ CanvasHeight(canvas) = cam.vsize
        /\ \A k \in 1..Len(ret.writes) :
             /\ ret.writes[k] \in ImagePixels
             /\ \A j \in 1..Len(ret.writes) : j # k => ret.writes[j] # ret.writes[k]
             /\ CanvasGet(canvas, ret.writes[k].x, ret.writes[k].y) =
                    ColorAt(shapes, lights,
                            RayForPixel(cam, ret.writes[k].x, ret.writes[k].y), 0).color
        /\ ret.done =>
             /\ Range(ret.writes) = ImagePixels
             /\ Len(ret.writes) = cam.hsize * cam.vsize
        /\ pc = "render" =>
             /\ Len(ret.writes) = py * cam.hsize + px
             /\ \/ py < cam.vsize /\ px < cam.hsize    \* a pixel is next
                \/ py = cam.vsize /\ px = 0            \* the loops are over

\* a step of a render evaluates one more pixel or, after the last, returns
RenderAdvances ==
    pc = "render" =>
        \/ pc' = "render" /\ Len(ret'.writes) = Len(ret.writes) + 1
        \/ /\ pc' = "idle"
           /\ ret'.done
           /\ ret'.writes = ret.writes
           /\ Len(ret.writes) = cam.hsize * cam.vsize
           /\ canvas' = canvas

\* C8: Camera::render returns a canvas of width hsize and height vsize in
\* which every pixel (x, y) holds world.color_at(ray_for_pixel(x, y)); each
\* pixel is computed and written exactly once, no index outside the canvas is
\* touched, and render terminates after hsize * vsize pixel evaluations:
\* every step of it evaluates the next of the hsize * vsize pixels, it is
\* never stuck, and after the last pixel it returns.
C8_RenderFillsCanvas == []RenderSoFar /\ [][RenderAdvances]_vars

\* a finished render of more than one pixel, one of them lit
C8_Witness ==
    /\ ret.op = "render"
    /\ ret.done
    /\ Len(ret.writes) >= 3
    /\ \E p \in ImagePixels : CanvasGet(canvas, p.x, p.y) # Black
    /\ \E p \in ImagePixels : CanvasGet(canvas, p.x, p.y) = Black

C10_PixelColourIsAFunction ==
    /\ (ret.op = "render" /\ ret.done) => canvas = ret.first[1]
    /\ ret.op = "pixel" => ret.color = CanvasGet(ret.first[1], ret.x, ret.y)

\* a second render, begun at a later counter, of a scene with a lit pixel
C10_Witness ==
    /\ ret.op = "render"
    /\ ret.done
    /\ ret.n = 2
    /\ ret.start.ID > MaxStartID
    /\ \E p \in ImagePixels : CanvasGet(canvas, p.x, p.y) # Black

----------------------------------------------------------------------------
(* C11: transform and cached inverse stay in step *)

\* the matrix most recently passed to set_transform, the identity before the
\* first call
LastPassed == IF ret.passed = <<>> THEN Eye ELSE ret.passed[Len(ret.passed)]

\* C11: after any sequence of set_transform calls on a Sphere, Plane, Stripe
\* or SolidColor, transform() is the matrix passed last (the identity before
\* the first call) and transform_inverse() is its inverse: the two multiply
\* to the identity, in both orders.
C11_TransformAndInverseInStep ==
    obj # NoObject =>
        /\ obj.value.transform = LastPassed
        /\ MatMul(LastPassed, TransformInverseOf(obj)) = Eye
        /\ MatMul(TransformInverseOf(obj), LastPassed) = Eye

----------------------------------------------------------------------------
(* C12: a new canvas has the given size and is black *)

\* C12: Canvas::new(w, h) has width() = w and height() = h and every pixel
\* (x, y) with x < w and y < h is black, the sizes w = 0 and h = 0 included.
C12_NewCanvasIsBlack ==
    ret.op = "canvas_new" =>
        /\ CanvasWidth(canvas) = ret.width
        /\ CanvasHeight(canvas) = ret.height
        /\ \A x \in 0..(ret.width - 1), y \in 0..(ret.height - 1) :
               /\ CanvasInRange(canvas, x, y)
               /\ CanvasGet(canvas, x, y) = Black

----------------------------------------------------------------------------
(* C13: an index out of range panics *)

\* the indices the claim calls in range for an object of each type
IndicesOf(kind, target) ==
    CASE kind = "Canvas" ->
             {<<x, y>> : x \in 0..(CanvasWidth(target) - 1),
                         y \in 0..(CanvasHeight(target) - 1)}
      [] kind = "Matrix" -> {<<row, col>> : row \in 0..3, col \in 0..3}
      [] OTHER -> {<<0>>, <<1>>, <<2>>}

\* the component of the object an in-range index names
ComponentOf(kind, target, index) ==
    CASE kind = "Canvas" -> target.pixels[index[2] + 1][index[1] + 1]
      [] kind = "Matrix" -> target[4 * index[1] + index[2] + 1]
      [] kind = "Color" -> <<target.r, target.g, target.b>>[index[1] + 1]
      [] kind = "Tuple" -> <<target.x, target.y, target.z>>[index[1] + 1]

\* C13: indexing a Canvas, Color, Tuple or Matrix succeeds exactly on the
\* in-range indices; out of range it panics, yields no value and leaves the
\* object as it was; in range a read yields the component named and a write
\* changes that component and no other.
C13_IndexOutOfRangePanics ==
    ret.op \in {"index", "index_mut"} =>
        /\ ret.ok <=> ret.index \in IndicesOf(ret.kind, ret.target)
        /\ ~ret.ok =>
               /\ pc = "panicked"
               /\ ret.op = "index_mut" => ret.after = ret.target
               /\ ret.kind = "Canvas" => canvas = ret.target
        /\ (ret.ok /\ ret.op = "index") =>
               ret.value = ComponentOf(ret.kind, ret.target, ret.index)
        /\ (ret.ok /\ ret.op = "index_mut") =>
               \A index \in IndicesOf(ret.kind, ret.target) :
                   ComponentOf(ret.kind, ret.after, index) =
                       IF index = ret.index THEN ret.v
                       ELSE ComponentOf(ret.kind, ret.target, index)

\* a matrix read whose column is past 3 while row * 4 + col is still inside the
\* sixteen entries: it panicked
C13_Witness ==
    /\ ret.op = "index"
    /\ ret.kind = "Matrix"
    /\ ret.index = <<1, 4>>
    /\ ~ret.ok
    /\ pc = "panicked"

----------------------------------------------------------------------------
(* C14: the layout of the PPM text *)

\* the lines of a text: the pieces between one "\n" and the next
RECURSIVE LinesFrom(_, _, _, _)
LinesFrom(text, k, line, acc) ==
    IF k > Len(text) THEN acc
    ELSE IF text[k] = "\n" THEN LinesFrom(text, k + 1, <<>>, Append(acc, line))
    ELSE LinesFrom(text, k + 1, Append(line, text[k]), acc)

Lines(text) == LinesFrom(text, 1, <<>>, <<>>)

\* 'r g b' of a pixel
Triple(color) ==
    <<ToString(Channel(color.r)), " ", ToString(Channel(color.g)), " ",
      ToString(Channel(color.b))>>

\* C14: a to_ppm that returns Ok has written the lines P3, '<width> <height>'
\* and 255, then width * height lines, the pixel canvas[[x, y]] as 'r g b' on
\* line y * width + x after the header; the text ends with a newline and the
\* canvas is unchanged.
C14_PpmIsRowMajor ==
    (ret.op = "to_ppm" /\ ret.ok) =>
        LET width == CanvasWidth(ret.canvas)
            height == CanvasHeight(ret.canvas)
            lines == Lines(sink.out)
        IN  /\ sink.out[Len(sink.out)] = "\n"
            /\ Len(lines) = 3 + width * height
            /\ lines[1] = <<"P3">>
            /\ lines[2] = <<ToString(width), " ", ToString(height)>>
            /\ lines[3] = <<"255">>
            /\ \A x \in 0..(width - 1), y \in 0..(height - 1) :
                   lines[3 + y * width + x + 1] = Triple(CanvasGet(ret.canvas, x, y))
            /\ canvas = ret.canvas

\* a canvas of 2 by 2 written out whose pixel (1, 0) was set and whose pixel
\* (0, 1) is black
C14_Witness ==
    /\ ret.op = "to_ppm"
    /\ ret.ok
    /\ CanvasWidth(canvas) = 2
    /\ CanvasHeight(canvas) = 2
    /\ CanvasGet(canvas, 1, 0) # Black
    /\ CanvasGet(canvas, 0, 1) = Black
    /\ Lines(sink.out)[5] # <<"0", " ", "0", " ", "0">>

----------------------------------------------------------------------------
(* C15: a channel is serialized as clamp(floor(c * 256), 0, 255) *)

\* floor(c * 256) clamped to 0..255, for c a number or an infinity
FloorClamp(c) ==
    IF c[2] = 0 THEN (IF c[1] > 0 THEN 255 ELSE 0)
    ELSE Clamp((c[1] * 256) \div c[2], 0, 255)

\* c * 256 rounded towards zero and clamped to 0..255
TruncClamp(c) ==
    IF c[2] = 0 THEN (IF c[1] > 0 THEN 255 ELSE 0)
    ELSE Clamp(Sign(c[1]) * ((Abs(c[1]) * 256) \div c[2]), 0, 255)

\* the numeral `piece` stands for what the claim says of the channel c
ChannelAsClaimed(c, piece) ==
    \E n \in 0..255 :
        /\ piece = ToString(n)
        /\ ~IsNaN(c) =>
               /\ n = FloorClamp(c)
               /\ n = TruncClamp(c)
               /\ RLe(c, I(0)) => n = 0
               /\ RGe(c, I(1)) => n = 255

\* C15: each channel c of a colour is written as the integer
\* clamp(floor(c * 256), 0, 255): it lies in 0..255, is 0 for c <= 0 and 255
\* for c >= 1, and is also c * 256 rounded towards zero and then clamped.
C15_ChannelIsClampedFloor ==
    ret.op = "display" =>
        /\ Len(ret.text) = 5
        /\ ret.text[2] = " "
        /\ ret.text[4] = " "
        /\ ChannelAsClaimed(ret.color.r, ret.text[1])
        /\ ChannelAsClaimed(ret.color.g, ret.text[3])
        /\ ChannelAsClaimed(ret.color.b, ret.text[5])

\* a colour with a channel between -1/256 and 0, where floor and rounding
\* towards zero differ before the clamp, and a channel of 255/256
C15_Witness ==
    /\ ret.op = "display"
    /\ ret.color = ColorNew(Norm(-1, 512), Norm(255, 256), Norm(1, 2))
    /\ ret.text = <<"0", " ", "255", " ", "128">>

----------------------------------------------------------------------------
(* C16: a failing write ends to_ppm with that error *)

\* the writes to_ppm makes on a sink that never fails: the header and one for
\* each pixel
WritesOf(cv) == 1 + CanvasWidth(cv) * CanvasHeight(cv)

\* C16: when the sink fails at one of the writes of to_ppm, to_ppm returns the
\* sink's error, the failing write is the last one the sink receives, and the
\* text is what the writes before it wrote; when no write fails it returns Ok
\* after every write.  The canvas is unchanged in both cases.
C16_WriteErrorIsReturned ==
    ret.op = "to_ppm" =>
        /\ canvas = ret.canvas
        /\ IF ret.sink.fail_at \in 1..WritesOf(ret.canvas)
           THEN /\ ~ret.ok
                /\ ret.error = ret.sink.error
                /\ sink.calls = ret.sink.fail_at
                /\ Len(Lines(sink.out)) =
                       IF ret.sink.fail_at = 1 THEN 0 ELSE 3 + (ret.sink.fail_at - 2)
           ELSE /\ ret.ok
                /\ sink.calls = WritesOf(ret.canvas)
                /\ Len(Lines(sink.out)) = 3 + CanvasWidth(ret.canvas) * CanvasHeight(ret.canvas)

\* the write of the second pixel of a 2 by 2 canvas failed
C16_Witness ==
    /\ ret.op = "to_ppm"
    /\ ~ret.ok
    /\ ret.error = "WriteZero"
    /\ ret.sink.fail_at = 3
    /\ CanvasWidth(canvas) = 2
    /\ CanvasHeight(canvas) = 2
    /\ sink.calls = 3

----------------------------------------------------------------------------
(* C17: a NaN t is left out of hit selection *)

\* position h of list is the first whose t is a number above 0, or h = 0 and
\* there is none
FirstRealPositive(list, h) ==
    /\ h \in 0..Len(list)
    /\ h # 0 => ~IsNaN(list[h].t) /\ RGt(list[h].t, I(0))
    /\ \A k \in 1..(IF h = 0 THEN Len(list) ELSE h - 1) :
           IsNaN(list[k].t) \/ ~RGt(list[k].t, I(0))

\* C17: an intersection with a NaN t is never the hit, and a shape that gives
\* a NaN t does not keep World::intersect, World::color_at or
\* World::is_shadowed from completing: the hit is the first intersection with
\* a real t > 0 if there is one.
C17_NaNIsExcluded ==
    /\ ret.op = "hit" => FirstRealPositive(ret.list, ret.res)
    /\ ret.op \in {"intersect", "color_at", "is_shadowed"} =>
           /\ ret.res.ok
           /\ pc # "panicked"
    /\ ret.op = "intersect" => FirstRealPositive(ret.res.xs, Hit(ret.res.xs))

----------------------------------------------------------------------------
(* C18: Stripe::color_at follows the parity of floor(x) *)

\* whether the mathematical floor of the number x is even
FloorIsEven(x) == IF x[2] < 0 THEN TRUE ELSE (x[1] \div x[2]) % 2 = 0

\* C18: Stripe::color_at(p) is the first texture's colour when floor(p.x) is
\* even and the second's when it is odd, for every number p.x: below 0 (floor,
\* not truncation) and beyond the range of i32 as well.
C18_StripeFollowsFloorParity ==
    ret.op = "stripe_color_at" =>
        ret.res = IF FloorIsEven(ret.point.x) THEN ret.texture.texture1.color
                  ELSE ret.texture.texture2.color

----------------------------------------------------------------------------
(* C19: the colour of a stripe texture and the y and z of the point *)

\* the colour Stripe::color_at returned is the colour at every point with the
\* same x
SameForEveryYZ ==
    \A y \in {I(0), I(1), I(2)}, z \in {I(0), I(1), I(2)} :
        TextureColorAt(ret.texture, Point(ret.point.x, y, z)) = ret.res

\* C19: for every Stripe texture, whatever its two child textures are,
\* color_at((x, y, z)) = color_at((x, y', z')).
C19_StripeDependsOnXOnly ==
    ret.op = "stripe_color_at" => SameForEveryYZ

\* C19 amended: for every Stripe texture whose two child textures are solid
\* colours, color_at((x, y, z)) = color_at((x, y', z')).
C19_StripeOfSolidsDependsOnXOnly ==
    (/\ ret.op = "stripe_color_at"
     /\ ret.texture.texture1.kind = "SolidColor"
     /\ ret.texture.texture2.kind = "SolidColor") => SameForEveryYZ

\* a stripe of two solid colours asked off the x axis, in its second stripe
C19_Witness ==
    /\ ret.op = "stripe_color_at"
    /\ ret.texture = StripeColors(C(1, 1, 1), Black)
    /\ ret.point = Point(Norm(3, 2), I(1), I(2))
    /\ ret.res = Black

----------------------------------------------------------------------------
(* C20: color_at_shape applies the shape's inverse, then the texture's *)

\* C20: color_at_shape(p, shape) = color_at(texture_inverse * (shape_inverse *
\* p)), the inverses being those of the transforms the shape and the texture
\* report; with both transforms the identity it is color_at(p).
C20_ColorAtShapeComposesInverses ==
    ret.op = "color_at_shape" =>
        /\ ret.res =
               TextureColorAt(ret.texture,
                   MatVec(Inverse(ret.texture.transform),
                          MatVec(Inverse(ret.shape.transform), ret.point)))
        /\ (ret.texture.transform = Eye /\ ret.shape.transform = Eye) =>
               ret.res = TextureColorAt(ret.texture, ret.point)

\* a scaled shape with a moved stripe texture, at a point where the order of
\* the two inverses decides the stripe
C20_Witness ==
    /\ ret.op = "color_at_shape"
    /\ ret.shape.transform = Scaling(I(2), I(2), I(2))
    /\ ret.texture.kind = "Stripe"
    /\ ret.texture.transform = Translation(Norm(1, 2), I(1), Norm(3, 2))
    /\ ret.point = Point(Norm(5, 2), I(3), Norm(7, 2))
    /\ ret.res = C(1, 1, 1)
    /\ ColorAtShape_TextureFirst(ret.texture, ret.point, ret.shape) = Black

----------------------------------------------------------------------------
(* C21: Sphere::local_intersect gives none or two, the nearer first *)

\* b * b - a * c of the ray against the unit sphere
Discriminant(ray) ==
    RSub(RMul(Dot(ray.direction, ray.origin), Dot(ray.direction, ray.origin)),
         RMul(NormSquared(ray.direction), RSub(NormSquared(TSub(ray.origin, P(0, 0, 0))), I(1))))

\* the point of the ray at distance t lies on the unit sphere
OnUnitSphere(ray, t) == NormSquared(TSub(RayAt(ray, t), P(0, 0, 0))) = I(1)

\* C21: for a ray of non-zero direction Sphere::local_intersect returns no
\* intersection exactly when the discriminant is negative, and otherwise two
\* intersections on the sphere with t1 <= t2, equal exactly on a tangent; an
\* origin inside the sphere gives t1 < 0 < t2, a sphere behind the ray two
\* negative t.
C21_SphereLocalIntersect ==
    (/\ ret.op = "local_intersect"
     /\ ret.kind = "Sphere"
     /\ ret.ray.direction # V(0, 0, 0)) =>
        /\ Len(xs) \in {0, 2}
        /\ Len(xs) = 0 <=> RLt(Discriminant(ret.ray), I(0))
        /\ Len(xs) = 2 =>
               /\ RLe(xs[1].t, xs[2].t)
               /\ xs[1].t = xs[2].t <=> Discriminant(ret.ray) = I(0)
               /\ OnUnitSphere(ret.ray, xs[1].t) /\ OnUnitSphere(ret.ray, xs[2].t)
               /\ RLt(NormSquared(TSub(ret.ray.origin, P(0, 0, 0))), I(1)) =>
                      RLt(xs[1].t, I(0)) /\ RGt(xs[2].t, I(0))
               /\ (/\ RGt(NormSquared(TSub(ret.ray.origin, P(0, 0, 0))), I(1))
                   /\ RGt(Dot(ret.ray.direction, ret.ray.origin), I(0))) =>
                      RLt(xs[1].t, I(0)) /\ RLt(xs[2].t, I(0))

\* a tangent ray: two intersections at the same t
C21_Witness ==
    /\ ret.op = "local_intersect"
    /\ ret.kind = "Sphere"
    /\ ret.ray = RayNew(P(0, 1, -5), V(0, 0, 1))
    /\ Len(xs) = 2
    /\ xs[1].t = I(5) /\ xs[2].t = I(5)

----------------------------------------------------------------------------
(* C22: Plane::local_intersect gives none for a parallel ray, else one *)

\* C22: Plane::local_intersect returns no intersection when |direction.y| <
\* 1e-6 and otherwise one intersection whose t satisfies t * direction.y =
\* -origin.y; t is positive when the ray points toward the plane and negative
\* when it points away.
C22_PlaneLocalIntersect ==
    (ret.op = "local_intersect" /\ ret.kind = "Plane") =>
        IF /\ RLt(ret.ray.direction.y, Norm(1, 1000000))
           /\ RGt(ret.ray.direction.y, Norm(-1, 1000000))
        THEN xs = <<>>
        ELSE /\ Len(xs) = 1
             /\ RMul(xs[1].t, ret.ray.direction.y) = RNeg(ret.ray.origin.y)
             /\ (\/ RGt(ret.ray.origin.y, I(0)) /\ RLt(ret.ray.direction.y, I(0))
                 \/ RLt(ret.ray.origin.y, I(0)) /\ RGt(ret.ray.direction.y, I(0))) =>
                    RGt(xs[1].t, I(0))
             /\ (\/ RGt(ret.ray.origin.y, I(0)) /\ RGt(ret.ray.direction.y, I(0))
                 \/ RLt(ret.ray.origin.y, I(0)) /\ RLt(ret.ray.direction.y, I(0))) =>
                    RLt(xs[1].t, I(0))

\* from below going up, with a direction.y of exactly 1e-6: one intersection
C22_Witness ==
    /\ ret.op = "local_intersect"
    /\ ret.kind = "Plane"
    /\ ret.ray.origin.y = I(-1)
    /\ ret.ray.direction.y = Norm(1, 1000000)
    /\ Len(xs) = 1
    /\ xs[1].t = I(1000000)

----------------------------------------------------------------------------
(* C29: Shape::intersect hands local_intersect the transformed ray *)

\* the ray (inverse * origin, inverse * direction), the inverse computed from
\* the transform the shape reports
LocalRay ==
    RayNew(MatVec(Inverse(ret.shape.transform), ret.ray.origin),
           MatVec(Inverse(ret.shape.transform), ret.ray.direction))

\* the distances of a list of intersections
DistancesOf(list) == [k \in 1..Len(list) |-> list[k].t]

\* C29: the intersections Shape::intersect returns are those of
\* local_intersect on the ray (inverse * origin, inverse * direction) with their
\* t; for each of them the inverse maps world_ray.at(t) to local_ray.at(t),
\* which lies on the shape; a sphere scaled by 2 hit from (0, 0, -5) along +z
\* gives 3 and 7.
C29_IntersectUsesTransformedRay ==
    ret.op = "intersect" =>
        /\ DistancesOf(xs) = DistancesOf(LocalIntersectOf(ret.kind, ret.shape, LocalRay, 0).xs)
        /\ \A k \in 1..Len(xs) :
               /\ xs[k].shape = ret.shape
               /\ MatVec(Inverse(ret.shape.transform), RayAt(ret.ray, xs[k].t))
                      = RayAt(LocalRay, xs[k].t)
               /\ IF ret.kind = "Sphere" THEN OnUnitSphere(LocalRay, xs[k].t)
                  ELSE RayAt(LocalRay, xs[k].t).y = I(0)
        /\ (/\ ret.kind = "Sphere"
            /\ ret.shape.transform = Scaling(I(2), I(2), I(2))
            /\ ret.ray = RayNew(P(0, 0, -5), V(0, 0, 1))) =>
               DistancesOf(xs) = <<I(3), I(7)>>

\* the sphere scaled by 2 and the ray of tests::intersect_scaled
C29_Witness ==
    /\ ret.op = "intersect"
    /\ ret.kind = "Sphere"
    /\ ret.shape.transform = Scaling(I(2), I(2), I(2))
    /\ ret.ray = RayNew(P(0, 0, -5), V(0, 0, 1))
    /\ LocalRay = RayNew(Point(I(0), I(0), Norm(-5, 2)), Vector(I(0), I(0), Norm(1, 2)))
    /\ Len(xs) = 2
    /\ xs[1].t = I(3)

----------------------------------------------------------------------------
(* C23: the inverse undoes the matrix *)

\* the determinant of the linear part of an affine matrix, by the rule of
\* Sarrus
AffineDeterminant(m) ==
    RSub(RAdd(RAdd(RMul(RMul(m[1], m[6]), m[11]), RMul(RMul(m[2], m[7]), m[9])),
              RMul(RMul(m[3], m[5]), m[10])),
         RAdd(RAdd(RMul(RMul(m[3], m[6]), m[9]), RMul(RMul(m[2], m[5]), m[11])),
              RMul(RMul(m[1], m[7]), m[10])))

----------------------------------------------------------------------------
(* C24: the fields Camera::new computes *)

\* the greater of two sizes
Max(a, b) == IF a >= b THEN a ELSE b

\* half_width, half_height and pixel_size are those the claim gives, and the
\* pixel size follows from them as it says; tan(fov / 2) is ret.half_view
PixelSizeAsClaimed ==
    /\ cam.half_width = IF cam.hsize >= cam.vsize THEN ret.half_view
                        ELSE RMul(ret.half_view, RDiv(I(cam.hsize), I(cam.vsize)))
    /\ cam.half_height = IF cam.hsize >= cam.vsize
                         THEN RDiv(ret.half_view, RDiv(I(cam.hsize), I(cam.vsize)))
                         ELSE ret.half_view
    /\ cam.pixel_size = RDiv(RMul(I(2), cam.half_width), I(cam.hsize))
    /\ cam.pixel_size = RDiv(RMul(I(2), ret.half_view), I(Max(cam.hsize, cam.vsize)))
    /\ RDiv(RMul(I(2), cam.half_height), I(cam.vsize)) = cam.pixel_size
    /\ CameraNew(RenderConfig(cam.vsize, cam.hsize, ret.half_view)).pixel_size
           = cam.pixel_size

\* C24 as stated: for every camera the fields are those the claim gives.
C24_PixelSize == ret.op = "camera" => PixelSizeAsClaimed

\* C24, amended: for a camera of at least one pixel each way (hsize >= 1 and
\* vsize >= 1) the fields are those the claim gives: pixel_size = 2 *
\* tan(fov / 2) / max(hsize, vsize), the pixels are square, and the camera of
\* vsize x hsize has the same pixel size.
C24_PixelSizeOfNonEmptyImage ==
    (ret.op = "camera" /\ cam.hsize >= 1 /\ cam.vsize >= 1) => PixelSizeAsClaimed

\* an upright image: aspect < 1
C24_Witness ==
    /\ ret.op = "camera"
    /\ cam.hsize = 2 /\ cam.vsize = 5 /\ ret.half_view = I(2)
    /\ cam.half_width = Norm(4, 5)
    /\ cam.half_height = I(2)
    /\ cam.pixel_size = Norm(4, 5)

\* the place of intersection x in the list World::intersect appended shape by
\* shape, before the sort
AppendedPlace(x) ==
    CHOOSE k \in 1..Len(ret.res.xs) :
        AppendFrom(ret.shapes, 1, ret.ray, [xs |-> <<>>, id |-> ret.id]).xs[k] = x

\* C25: in the list World::intersect returns, intersections with equal t stand
\* in the order they were appended (shape by shape in insertion order, each
\* shape's intersections in the order it produced them); so of two shapes
\* that tie for the smallest positive t the hit is the one added first.
C25_TiesKeepInsertionOrder ==
    (ret.op = "intersect" /\ ret.res.ok) =>
        /\ \A i, j \in 1..Len(ret.res.xs) :
             (i < j /\ PartialCmp(ret.res.xs[i], ret.res.xs[j]) = "Equal")
                 => AppendedPlace(ret.res.xs[i]) < AppendedPlace(ret.res.xs[j])
        /\ Hit(ret.res.xs) # 0 =>
             \A j \in 1..Len(ret.res.xs) :
                 PartialCmp(ret.res.xs[j], ret.res.xs[Hit(ret.res.xs)]) = "Equal"
                     => AppendedPlace(ret.res.xs[Hit(ret.res.xs)]) <= AppendedPlace(ret.res.xs[j])

\* the k-th pixel, counted from 1, of an image of the given width in row-major
\* order
RowMajor(k, width) == [x |-> (k - 1) % width, y |-> (k - 1) \div width]

\* C26 as stated: Camera::render visits the pixels in row-major order, each
\* once, with y running from 0 to hsize - 1 and x from 0 to wsize - 1.  The
\* code has no wsize; it is read here as the width of the image.
C26_RowMajorUpToHsize ==
    (ret.op = "render" /\ ret.done) =>
        /\ Len(ret.writes) = cam.hsize * CanvasWidth(canvas)
        /\ \A k \in 1..Len(ret.writes) :
             ret.writes[k] = RowMajor(k, CanvasWidth(canvas))

\* C26, amended: Camera::render visits the pixels in row-major order, one
\* after another and each once, with y running from 0 to vsize - 1 and, in
\* each row, x from 0 to hsize - 1: the k-th pixel evaluated is
\* (x, y) = ((k - 1) mod hsize, (k - 1) div hsize), and render returns after
\* the hsize * vsize-th.
C26_RowMajorUpToVsize ==
    ret.op = "render" =>
        /\ \A k \in 1..Len(ret.writes) : ret.writes[k] = RowMajor(k, cam.hsize)
        /\ Len(ret.writes) <= cam.hsize * cam.vsize
        /\ ret.done => Len(ret.writes) = cam.hsize * cam.vsize

\* a finished render of an image one pixel wide and three high: y has run up
\* to vsize - 1 = 2, beyond hsize - 1 = 0
C26_Witness ==
    /\ ret.op = "render"
    /\ ret.done
    /\ cam.hsize = 1
    /\ cam.vsize = 3
    /\ ret.writes = <<[x |-> 0, y |-> 0], [x |-> 0, y |-> 1], [x |-> 0, y |-> 2]>>

\* C27: World::shade_hit(light_index, record) is the material's lighting for
\* the light at light_index with the shadow flag is_shadowed(light_index,
\* record.over_point); a record whose over_point is occluded from that light
\* gets the ambient term of that light only; and the result is what the
\* world's shapes give with that light alone, whatever occludes other lights.
C27_ShadeHitUsesOwnLightAtOverPoint ==
    (ret.op = "shade_hit" /\ ret.res.ok) =>
        /\ ret.res.color =
               Lighting(ret.rec.shape.material, lights[ret.light_index],
                        ret.rec.point, ret.rec.eye, ret.rec.normal,
                        IsShadowed(shapes, lights, ret.light_index,
                                   ret.rec.over_point, 0).val)
        /\ IsShadowed(shapes, lights, ret.light_index, ret.rec.over_point, 0).val
               => ret.res.color =
                      CScale(CMul(ret.rec.shape.material.color,
                                  lights[ret.light_index].color),
                             ret.rec.shape.material.ambient)
        /\ ret.res.color =
               ShadeHit(shapes, <<lights[ret.light_index]>>, 1, ret.rec, 0).color

\* a record on SphereA lit by the light of the call, with diffuse light on
\* it, while the world's other light is occluded at its over_point and a
\* shape lies between its point and its over_point
C27_Witness ==
    /\ ret.op = "shade_hit"
    /\ ret.res.ok
    /\ Len(lights) = 2
    /\ ~IsShadowed(shapes, lights, ret.light_index, ret.rec.over_point, 0).val
    /\ IsShadowed(shapes, lights, ret.light_index, ret.rec.point, 0).val
    /\ IsShadowed(shapes, lights, 3 - ret.light_index, ret.rec.over_point, 0).val
    /\ ret.res.color #
           CScale(CMul(ret.rec.shape.material.color, lights[ret.light_index].color),
                  ret.rec.shape.material.ambient)

\* point q lies inside sphere s: nearer than 1 to the origin in object space
InsideSphere(s, q) ==
    RLt(NormSquared(TSub(MatVec(s.transform_inverse, q), P(0, 0, 0))), I(1))

HandedOut ==
    {xs[i].id : i \in 1..Len(xs)}
        \cup {calls[c].id : c \in {d \in 1..MaxCallers : calls[d].at = "fetched"}}

\* no identifier was handed out twice, and each is below the counter
IdentifiersDiffer ==
    /\ \A i, j \in 1..Len(xs) : xs[i].id = xs[j].id => i = j
    /\ \A c, d \in 1..MaxCallers :
         (calls[c].at = "fetched" /\ calls[d].at = "fetched" /\ calls[c].id = calls[d].id)
             => c = d
    /\ \A c \in 1..MaxCallers, i \in 1..Len(xs) :
         calls[c].at = "fetched" => calls[c].id # xs[i].id
    /\ \A h \in HandedOut : h < ID

\* equality is that of the identifiers: an intersection equals itself and its
\* clones and no intersection constructed separately
EqualityIsIdentity ==
    ret.op = "eq" =>
        /\ ret.a.id = xs[ret.i].id
        /\ ret.b.id = xs[ret.j].id
        /\ ret.res <=> ret.i = ret.j

\* a call that fetches its identifier gets one greater than all handed out
\* before
FetchedIsGreatest ==
    \A c \in 1..MaxCallers :
        (calls[c].at # "fetched" /\ calls'[c].at = "fetched")
            => \A h \in HandedOut : calls'[c].id > h

\* C30: every call of Intersection::new, however the callers interleave, gets
\* an identifier different from that of every other intersection constructed
\* and greater than all handed out before it; Clone keeps the identifier;
\* equality is by identifier only: an intersection equals its clones, and two
\* intersections constructed separately are unequal, also with the same t and
\* the same shape.
C30_IdentifiersAreUnique ==
    [](IdentifiersDiffer /\ EqualityIsIdentity) /\ [][FetchedIsGreatest]_vars

\* two intersections with the same t and the same shape, returned in the
\* opposite order of their identifiers, compared: not equal
C30_Witness ==
    /\ ret.op = "eq"
    /\ ret.i = 1
    /\ ret.j = 2
    /\ xs[1].id > xs[2].id
    /\ ret.a.t = ret.b.t
    /\ ret.a.shape = ret.b.shape
    /\ ~ret.res

====
